---- MODULE Spec2Model ----
(***************************************************************************)
(* Order-statistic red-black tree of krzysztofgb/gostree (src/tree.go).    *)
(*                                                                         *)
(* The heap is a function from node addresses to node records.  Address 0  *)
(* is the sentinel t.nil.  A heap value h is a record                      *)
(*     [root |-> address, n |-> [address -> Node]]                         *)
(* and every method of Tree is an operator from heap to heap (or to a      *)
(* result), translated statement by statement, so that aliasing through    *)
(* the sentinel behaves as in the Go code.                                 *)
(***************************************************************************)
EXTENDS Integers, Sequences, FiniteSets, TLC

\* ------------------------------------------------------------------ bounds
MaxNodes == 6
MaxKey == 3
\* the same for the client whose calls run in steps
MaxStepNodes == 10
MaxStepKey == 2
\* the goroutines that call the read operations at the same time, and the
\* largest tree and key they read
MaxReaders == 2
MaxReadNodes == 4
MaxReadKey == 2

Keys == 1..MaxKey
StepKeys == 1..MaxStepKey
ReadKeys == 1..MaxReadKey
Readers == 1..MaxReaders
\* the largest number of nodes any client has in its tree
MostNodes == IF MaxStepNodes > MaxNodes THEN MaxStepNodes ELSE MaxNodes
\* addresses of real nodes; the last one, Gone, is never handed out: it
\* stands for the address of a node that was released
Gone == MostNodes + 1
Addrs == 1..(MostNodes + 1)
\* arguments tried for Select: every valid index and both out-of-range sides
Indexes == (0 - 1)..(MaxNodes + 1)
\* keys of a client that never stores a key twice: as many as there are nodes
DistinctKeys == 1..MaxNodes
AllKeys == Keys \cup DistinctKeys \cup StepKeys \cup ReadKeys

\* ------------------------------------------------------------- Color, Node
RED == FALSE
BLACK == TRUE
\* var zero T for an integer key type
zero == 0

nil == 0

Node(k, l, r, p, c, s) ==
  [key |-> k, left |-> l, right |-> r, parent |-> p, color |-> c, size |-> s]

\* root, nodes: the tree; op, arg, ret: the last call, its argument and its
\* result; net: for every key, the number of Insert calls made with it so
\* far minus the number of Delete calls with it that returned true; frame:
\* the position and the local variables of an Insert or Delete call that is
\* under way; calls: for every goroutine that calls read operations, the
\* position and the local variables of its call; rotations: what the last
\* Insert or Delete call that ran in one piece did in its rotations
VARIABLES root, nodes, op, arg, ret, net, frame, calls, rotations

vars == <<root, nodes, op, arg, ret, net, frame, calls, rotations>>

\* the tree as a heap value
T == [root |-> root, n |-> nodes]

\* ---------------------------------------------------------- field access
Key(h, x) == h.n[x].key
Left(h, x) == h.n[x].left
Right(h, x) == h.n[x].right
Parent(h, x) == h.n[x].parent
ColorOf(h, x) == h.n[x].color
SizeOf(h, x) == h.n[x].size

SetLeft(h, x, v) == [h EXCEPT !.n[x].left = v]
SetRight(h, x, v) == [h EXCEPT !.n[x].right = v]
SetParent(h, x, v) == [h EXCEPT !.n[x].parent = v]
\* the write of a color; a heap that carries a record (field rot, below) has
\* a write of RED into the sentinel put on it
SetColor(h, x, v) ==
  IF "rot" \in DOMAIN h /\ x = nil /\ v = RED
    THEN [h EXCEPT !.n[x].color = v, !.rot.black = FALSE]
    ELSE [h EXCEPT !.n[x].color = v]
SetSize(h, x, v) == [h EXCEPT !.n[x].size = v]
SetRoot(h, v) == [h EXCEPT !.root = v]

\* -------------------------------------------------------------- NewTree
NewTree ==
  [root |-> nil, n |-> (nil :> Node(zero, nil, nil, nil, BLACK, 0))]

\* no call is under way (entry, stale and below are no locals of the code:
\* stale is the parent link of the sentinel when Delete was called, below
\* the node under which deleteNode took a node out; entry is the node
\* records as they were when the Insert call under way was made)
Idle ==
  [pc |-> "idle", key |-> zero, current |-> nil, newNode |-> nil,
   parent |-> nil, nodeToDelete |-> nil, nodeActuallyDeleted |-> nil,
   replacementNode |-> nil, originalColor |-> BLACK, entry |-> <<>>,
   stale |-> nil, below |-> nil]

\* a goroutine that is in no call
\* (arg: the argument of the call; k, rank, current: the locals of
\* selectNode, Rank and search)
NoCall == [pc |-> "idle", arg |-> zero, k |-> 0, rank |-> 0, current |-> nil]

\* sequencing of statements: the heap a statement leaves is the heap the
\* rest of the function body K runs in.  This is K(h), written so that h is
\* evaluated once, before K, as the statement is executed before the rest
Then(h, K(_)) == CHOOSE r \in {K(x) : x \in {h}} : TRUE

\* the addresses of the nodes below x, in in-order
RECURSIVE InOrderNodes(_, _)
InOrderNodes(h, x) ==
  IF x = nil
    THEN <<>>
    ELSE InOrderNodes(h, Left(h, x)) \o <<x>> \o InOrderNodes(h, Right(h, x))

Range(s) == {s[i] : i \in 1..Len(s)}

\* the real nodes and the keys of the tree, read from the root downward
TreeNodes(h) == InOrderNodes(h, h.root)
TreeKeys(h) == Then(TreeNodes(h), LAMBDA ns : [i \in 1..Len(ns) |-> Key(h, ns[i])])

\* ------------------------------------------------- a record of rotations
\* A heap value may carry a field rot beside root and n: how many left and
\* right rotations were made on it, and whether each of them kept what a
\* rotation has to keep; and whether the sentinel was left BLACK by every
\* write of a color.  No code reads it.
NoRotations ==
  [left |-> 0, right |-> 0, kept |-> TRUE, pivots |-> TRUE, black |-> TRUE]

\* heap h with the record r of the rotations made so far
Watched(h, r) == [root |-> h.root, n |-> h.n, rot |-> r]

Watch(h) == Watched(h, NoRotations)

\* the size equation at node x
SizeAt(h, x) == SizeOf(h, x) = SizeOf(h, Left(h, x)) + SizeOf(h, Right(h, x)) + 1

\* what the rotation of x with its pivot child y, from heap before to heap
\* after, has to keep: the in-order key sequence, every node's color, and,
\* if the size equation held in the subtrees below x and y, the size equation
\* at every node of the tree, x and y included
RotationKeeps(before, after, x, y) ==
  /\ TreeKeys(after) = TreeKeys(before)
  /\ \A n \in DOMAIN before.n : ColorOf(after, n) = ColorOf(before, n)
  /\ (\A n \in Range(InOrderNodes(before, x)) \ {x, y} : SizeAt(before, n))
       => \A n \in Range(TreeNodes(after)) : SizeAt(after, n)

\* the rotation of x with its pivot child y was one of two real nodes, and
\* the heap after it has the sentinel neither as root, nor as a node with
\* children, nor as the parent of a node of the tree other than the root
PivotReal(after, x, y) ==
  /\ x # nil /\ y # nil
  /\ after.root # nil
  /\ Left(after, nil) = nil /\ Right(after, nil) = nil
  /\ \A n \in Range(TreeNodes(after)) : Parent(after, n) = nil => n = after.root

\* the heap after a rotation of x with its pivot child y, with the rotation
\* put on record if a record is kept
Rotated(before, after, x, y, side) ==
  IF "rot" \in DOMAIN after
    THEN [after EXCEPT !.rot =
            [left |-> @.left + (IF side = "left" THEN 1 ELSE 0),
             right |-> @.right + (IF side = "right" THEN 1 ELSE 0),
             kept |-> @.kept /\ RotationKeeps(before, after, x, y),
             pivots |-> @.pivots /\ PivotReal(after, x, y),
             black |-> @.black]]
    ELSE after

\* ------------------------------------------------------------- rotations
\* a rotation that sets the parent of the moved subtree without testing it
\* against the sentinel
leftRotate_noNilCheck(h, node) ==
  LET rightChild == Right(h, node) IN
  Then(SetRight(h, node, Left(h, rightChild)), LAMBDA h1 :
  Then(SetParent(h1, Left(h1, rightChild), node), LAMBDA h2 :
  Then(SetParent(h2, rightChild, Parent(h2, node)), LAMBDA h3 :
  Then(IF Parent(h3, node) = nil
         THEN SetRoot(h3, rightChild)
         ELSE IF node = Left(h3, Parent(h3, node))
                THEN SetLeft(h3, Parent(h3, node), rightChild)
                ELSE SetRight(h3, Parent(h3, node), rightChild), LAMBDA h4 :
  Then(SetLeft(h4, rightChild, node), LAMBDA h5 :
  Then(SetParent(h5, node, rightChild), LAMBDA h6 :
  Then(SetSize(h6, node,
               SizeOf(h6, Left(h6, node)) + SizeOf(h6, Right(h6, node)) + 1),
       LAMBDA h7 :
  SetSize(h7, rightChild,
          SizeOf(h7, Left(h7, rightChild)) + SizeOf(h7, Right(h7, rightChild)) + 1)
  )))))))

\* a rotation that leaves the link from above (the root link or the
\* parent's child link) on the node rotated down
leftRotate_noLinkFromAbove(h, node) ==
  LET rightChild == Right(h, node) IN
  Then(SetRight(h, node, Left(h, rightChild)), LAMBDA h1 :
  Then(IF Left(h1, rightChild) # nil
         THEN SetParent(h1, Left(h1, rightChild), node)
         ELSE h1, LAMBDA h2 :
  Then(SetParent(h2, rightChild, Parent(h2, node)), LAMBDA h4 :
  Then(SetLeft(h4, rightChild, node), LAMBDA h5 :
  Then(SetParent(h5, node, rightChild), LAMBDA h6 :
  Then(SetSize(h6, node,
               SizeOf(h6, Left(h6, node)) + SizeOf(h6, Right(h6, node)) + 1),
       LAMBDA h7 :
  SetSize(h7, rightChild,
          SizeOf(h7, Left(h7, rightChild)) + SizeOf(h7, Right(h7, rightChild)) + 1)
  ))))))

\* a rotation that updates the size of the pivot before that of the node
\* rotated down
leftRotate_sizesBottomUp(h, node) ==
  LET rightChild == Right(h, node) IN
  Then(SetRight(h, node, Left(h, rightChild)), LAMBDA h1 :
  Then(IF Left(h1, rightChild) # nil
         THEN SetParent(h1, Left(h1, rightChild), node)
         ELSE h1, LAMBDA h2 :
  Then(SetParent(h2, rightChild, Parent(h2, node)), LAMBDA h3 :
  Then(IF Parent(h3, node) = nil
         THEN SetRoot(h3, rightChild)
         ELSE IF node = Left(h3, Parent(h3, node))
                THEN SetLeft(h3, Parent(h3, node), rightChild)
                ELSE SetRight(h3, Parent(h3, node), rightChild), LAMBDA h4 :
  Then(SetLeft(h4, rightChild, node), LAMBDA h5 :
  Then(SetParent(h5, node, rightChild), LAMBDA h6 :
  Then(SetSize(h6, rightChild,
               SizeOf(h6, Left(h6, rightChild)) + SizeOf(h6, Right(h6, rightChild)) + 1),
       LAMBDA h7 :
  Then(SetSize(h7, node,
               SizeOf(h7, Left(h7, node)) + SizeOf(h7, Right(h7, node)) + 1),
       LAMBDA h8 :
  Rotated(h, h8, node, rightChild, "left")
  ))))))))

leftRotate(h, node) ==
  LET rightChild == Right(h, node) IN
  Then(SetRight(h, node, Left(h, rightChild)), LAMBDA h1 :
  Then(IF Left(h1, rightChild) # nil
         THEN SetParent(h1, Left(h1, rightChild), node)
         ELSE h1, LAMBDA h2 :
  Then(SetParent(h2, rightChild, Parent(h2, node)), LAMBDA h3 :
  Then(IF Parent(h3, node) = nil
         THEN SetRoot(h3, rightChild)
         ELSE IF node = Left(h3, Parent(h3, node))
                THEN SetLeft(h3, Parent(h3, node), rightChild)
                ELSE SetRight(h3, Parent(h3, node), rightChild), LAMBDA h4 :
  Then(SetLeft(h4, rightChild, node), LAMBDA h5 :
  Then(SetParent(h5, node, rightChild), LAMBDA h6 :
  \* Update sizes
  Then(SetSize(h6, node,
               SizeOf(h6, Left(h6, node)) + SizeOf(h6, Right(h6, node)) + 1),
       LAMBDA h7 :
  Then(SetSize(h7, rightChild,
               SizeOf(h7, Left(h7, rightChild)) + SizeOf(h7, Right(h7, rightChild)) + 1),
       LAMBDA h8 :
  Rotated(h, h8, node, rightChild, "left")
  ))))))))

\* a rotation that does not tell the subtree it moves across who its new
\* parent is
rightRotate_noChildParent(h, node) ==
  LET leftChild == Left(h, node) IN
  Then(SetLeft(h, node, Right(h, leftChild)), LAMBDA h2 :
  Then(SetParent(h2, leftChild, Parent(h2, node)), LAMBDA h3 :
  Then(IF Parent(h3, node) = nil
         THEN SetRoot(h3, leftChild)
         ELSE IF node = Right(h3, Parent(h3, node))
                THEN SetRight(h3, Parent(h3, node), leftChild)
                ELSE SetLeft(h3, Parent(h3, node), leftChild), LAMBDA h4 :
  Then(SetRight(h4, leftChild, node), LAMBDA h5 :
  Then(SetParent(h5, node, leftChild), LAMBDA h6 :
  Then(SetSize(h6, node,
               SizeOf(h6, Left(h6, node)) + SizeOf(h6, Right(h6, node)) + 1),
       LAMBDA h7 :
  Then(SetSize(h7, leftChild,
               SizeOf(h7, Left(h7, leftChild)) + SizeOf(h7, Right(h7, leftChild)) + 1),
       LAMBDA h8 :
  Rotated(h, h8, node, leftChild, "right")
  )))))))

rightRotate(h, node) ==
  LET leftChild == Left(h, node) IN
  Then(SetLeft(h, node, Right(h, leftChild)), LAMBDA h1 :
  Then(IF Right(h1, leftChild) # nil
         THEN SetParent(h1, Right(h1, leftChild), node)
         ELSE h1, LAMBDA h2 :
  Then(SetParent(h2, leftChild, Parent(h2, node)), LAMBDA h3 :
  Then(IF Parent(h3, node) = nil
         THEN SetRoot(h3, leftChild)
         ELSE IF node = Right(h3, Parent(h3, node))
                THEN SetRight(h3, Parent(h3, node), leftChild)
                ELSE SetLeft(h3, Parent(h3, node), leftChild), LAMBDA h4 :
  Then(SetRight(h4, leftChild, node), LAMBDA h5 :
  Then(SetParent(h5, node, leftChild), LAMBDA h6 :
  \* Update sizes
  Then(SetSize(h6, node,
               SizeOf(h6, Left(h6, node)) + SizeOf(h6, Right(h6, node)) + 1),
       LAMBDA h7 :
  Then(SetSize(h7, leftChild,
               SizeOf(h7, Left(h7, leftChild)) + SizeOf(h7, Right(h7, leftChild)) + 1),
       LAMBDA h8 :
  Rotated(h, h8, node, leftChild, "right")
  ))))))))

\* ----------------------------------------------------------- insertFixup
\* an iteration whose Case 1 leaves the uncle RED
insertFixupIter_uncleStaysRed(h, newNode) ==
  LET parent == Parent(h, newNode)
      grandparent == Parent(h, parent)
  IN
  IF parent = Left(h, grandparent)
    THEN
      LET uncle == Right(h, grandparent) IN
      IF ColorOf(h, uncle) = RED
        THEN \* Case 1: uncle is RED - recolor and move up
          Then(SetColor(h, parent, BLACK), LAMBDA h1 :
          Then(SetColor(h1, grandparent, RED), LAMBDA h3 :
          [h |-> h3, node |-> grandparent]))
        ELSE
          \* Case 2: node is right child - rotate left
          LET n1 == IF newNode = Right(h, parent) THEN parent ELSE newNode IN
          Then(IF newNode = Right(h, parent) THEN leftRotate(h, n1) ELSE h,
               LAMBDA h1 :
          \* Case 3: node is left child - rotate right and recolor
          Then(SetColor(h1, Parent(h1, n1), BLACK), LAMBDA h2 :
          Then(SetColor(h2, Parent(h2, Parent(h2, n1)), RED), LAMBDA h3 :
          Then(rightRotate(h3, Parent(h3, Parent(h3, n1))), LAMBDA h4 :
          [h |-> h4, node |-> n1]))))
    ELSE
      \* Mirror cases: parent is right child of grandparent
      LET uncle == Left(h, grandparent) IN
      IF ColorOf(h, uncle) = RED
        THEN \* Case 1
          Then(SetColor(h, parent, BLACK), LAMBDA h1 :
          Then(SetColor(h1, grandparent, RED), LAMBDA h3 :
          [h |-> h3, node |-> grandparent]))
        ELSE
          \* Case 2: node is left child - rotate right
          LET n1 == IF newNode = Left(h, parent) THEN parent ELSE newNode IN
          Then(IF newNode = Left(h, parent) THEN rightRotate(h, n1) ELSE h,
               LAMBDA h1 :
          \* Case 3: node is right child - rotate left and recolor
          Then(SetColor(h1, Parent(h1, n1), BLACK), LAMBDA h2 :
          Then(SetColor(h2, Parent(h2, Parent(h2, n1)), RED), LAMBDA h3 :
          Then(leftRotate(h3, Parent(h3, Parent(h3, n1))), LAMBDA h4 :
          [h |-> h4, node |-> n1]))))

\* one iteration of the loop of insertFixup, entered with newNode.parent
\* RED: the heap it leaves and the node the next iteration starts from
insertFixupIter(h, newNode) ==
  LET parent == Parent(h, newNode)
      grandparent == Parent(h, parent)
  IN
  IF parent = Left(h, grandparent)
    THEN
      LET uncle == Right(h, grandparent) IN
      IF ColorOf(h, uncle) = RED
        THEN \* Case 1: uncle is RED - recolor and move up
          Then(SetColor(h, parent, BLACK), LAMBDA h1 :
          Then(SetColor(h1, uncle, BLACK), LAMBDA h2 :
          Then(SetColor(h2, grandparent, RED), LAMBDA h3 :
          [h |-> h3, node |-> grandparent])))
        ELSE
          \* Case 2: node is right child - rotate left
          LET n1 == IF newNode = Right(h, parent) THEN parent ELSE newNode IN
          Then(IF newNode = Right(h, parent) THEN leftRotate(h, n1) ELSE h,
               LAMBDA h1 :
          \* Case 3: node is left child - rotate right and recolor
          Then(SetColor(h1, Parent(h1, n1), BLACK), LAMBDA h2 :
          Then(SetColor(h2, Parent(h2, Parent(h2, n1)), RED), LAMBDA h3 :
          Then(rightRotate(h3, Parent(h3, Parent(h3, n1))), LAMBDA h4 :
          [h |-> h4, node |-> n1]))))
    ELSE
      \* Mirror cases: parent is right child of grandparent
      LET uncle == Left(h, grandparent) IN
      IF ColorOf(h, uncle) = RED
        THEN \* Case 1
          Then(SetColor(h, parent, BLACK), LAMBDA h1 :
          Then(SetColor(h1, uncle, BLACK), LAMBDA h2 :
          Then(SetColor(h2, grandparent, RED), LAMBDA h3 :
          [h |-> h3, node |-> grandparent])))
        ELSE
          \* Case 2: node is left child - rotate right
          LET n1 == IF newNode = Left(h, parent) THEN parent ELSE newNode IN
          Then(IF newNode = Left(h, parent) THEN rightRotate(h, n1) ELSE h,
               LAMBDA h1 :
          \* Case 3: node is right child - rotate left and recolor
          Then(SetColor(h1, Parent(h1, n1), BLACK), LAMBDA h2 :
          Then(SetColor(h2, Parent(h2, Parent(h2, n1)), RED), LAMBDA h3 :
          Then(leftRotate(h3, Parent(h3, Parent(h3, n1))), LAMBDA h4 :
          [h |-> h4, node |-> n1]))))

\* the loop of insertFixup; the result is the heap at loop exit
RECURSIVE insertFixupLoop(_, _)
insertFixupLoop(h, newNode) ==
  IF ColorOf(h, Parent(h, newNode)) = RED
    THEN Then(insertFixupIter(h, newNode), LAMBDA e :
         insertFixupLoop(e.h, e.node))
    ELSE h

\* a fixup that stops after the loop and never recolors the root
insertFixup_noRootBlack(h, newNode) == insertFixupLoop(h, newNode)

\* a fixup that only recolors the root
insertFixup_noLoop(h, newNode) == SetColor(h, h.root, BLACK)

insertFixup(h, newNode) ==
  Then(insertFixupLoop(h, newNode), LAMBDA h1 :
  SetColor(h1, h1.root, BLACK))

\* ---------------------------------------------------------------- Insert
\* the descent of Insert: returns the heap with the sizes on the path
\* incremented and the last real node visited
\* a descent that forgets to count the new node on the path down
RECURSIVE InsertDescent_noSize(_, _, _, _)
InsertDescent_noSize(h, key, parent, current) ==
  IF current # nil
    THEN IF key < Key(h, current)
           THEN InsertDescent_noSize(h, key, current, Left(h, current))
           ELSE InsertDescent_noSize(h, key, current, Right(h, current))
    ELSE [h |-> h, parent |-> parent]

\* a descent that sends a key equal to the visited node's key to the left
InsertDescentIter_equalLeft(h, key, current) ==
  Then(SetSize(h, current, SizeOf(h, current) + 1), LAMBDA h1 :
  [h |-> h1,
   current |-> IF key <= Key(h1, current)
                 THEN Left(h1, current)
                 ELSE Right(h1, current)])

\* one iteration of the descent of Insert, entered with current a real
\* node: the heap it leaves and the next current
InsertDescentIter(h, key, current) ==
  \* Update size on the path down
  Then(SetSize(h, current, SizeOf(h, current) + 1), LAMBDA h1 :
  [h |-> h1,
   current |-> IF key < Key(h1, current)
                 THEN Left(h1, current)
                 ELSE Right(h1, current)])

RECURSIVE InsertDescent(_, _, _, _)
InsertDescent(h, key, parent, current) ==
  IF current # nil
    THEN Then(InsertDescentIter(h, key, current), LAMBDA e :
         InsertDescent(e.h, key, current, e.current))
    ELSE [h |-> h, parent |-> parent]

\* the address the allocator hands out (newNode := &Node[T]{...}): one no
\* live node has, and not the one a stale sentinel parent link still names
NewAddr(h) ==
  CHOOSE a \in Addrs \ {Gone} :
    /\ a \notin DOMAIN h.n
    /\ a # Parent(h, nil)
    /\ \A b \in Addrs \ {Gone} :
         (b \notin DOMAIN h.n /\ b # Parent(h, nil)) => a <= b

\* newNode := &Node[T]{key, left: nil, right: nil, parent: nil, RED, 1}
Alloc(h, newNode, key) ==
  [h EXCEPT !.n = (newNode :> Node(key, nil, nil, nil, RED, 1)) @@ h.n]

\* an attachment that compares the wrong way round
InsertAttach_wrongSide(h, key, newNode) ==
  Then(Alloc(h, newNode, key), LAMBDA h0 :
  Then(InsertDescent(h0, key, nil, h0.root), LAMBDA d :
  Then(SetParent(d.h, newNode, d.parent), LAMBDA h1 :
  IF d.parent = nil
    THEN SetRoot(h1, newNode)
    ELSE IF Key(h1, newNode) > Key(h1, d.parent)
           THEN SetLeft(h1, d.parent, newNode)
           ELSE SetRight(h1, d.parent, newNode))))

\* the attachment of the new node below the node the descent ended at
Attach(h, newNode, parent) ==
  Then(SetParent(h, newNode, parent), LAMBDA h1 :
  IF parent = nil
    THEN SetRoot(h1, newNode)
    ELSE IF Key(h1, newNode) < Key(h1, parent)
           THEN SetLeft(h1, parent, newNode)
           ELSE SetRight(h1, parent, newNode))

\* Insert up to and including the attachment of the new node
InsertAttach(h, key, newNode) ==
  Then(Alloc(h, newNode, key), LAMBDA h0 :
  \* Find insertion position
  Then(InsertDescent(h0, key, nil, h0.root), LAMBDA d :
  \* Insert the new node
  Attach(d.h, newNode, d.parent)))

InsertAt(h, key, newNode) ==
  Then(InsertAttach(h, key, newNode), LAMBDA h1 :
  \* Fix red-black properties
  insertFixup(h1, newNode))

\* an Insert that treats the tree as a set: a key already stored is not
\* stored again
Insert_unique(h, key) ==
  IF \E x \in (DOMAIN h.n) \ {nil} : Key(h, x) = key
    THEN h
    ELSE InsertAt(h, key, NewAddr(h))

Insert(h, key) == InsertAt(h, key, NewAddr(h))

\* ---------------------------------------------------------------- search
\* a descent that compares the wrong way round
RECURSIVE searchFrom_wrongSide(_, _, _)
searchFrom_wrongSide(h, key, current) ==
  IF current # nil /\ key # Key(h, current)
    THEN IF key > Key(h, current)
           THEN searchFrom_wrongSide(h, key, Left(h, current))
           ELSE searchFrom_wrongSide(h, key, Right(h, current))
    ELSE current

\* one iteration of the loop of search: the next current
searchIter_alwaysLeft(h, key, current) == Left(h, current)

searchIter(h, key, current) ==
  IF key < Key(h, current) THEN Left(h, current) ELSE Right(h, current)

RECURSIVE searchFrom(_, _, _)
searchFrom(h, key, current) ==
  IF current # nil /\ key # Key(h, current)
    THEN searchFrom(h, key, searchIter(h, key, current))
    ELSE current

search(h, key) == searchFrom(h, key, h.root)

Search(h, key) == search(h, key) # nil

\* ---------------------------------------------------------------- Select
\* a descent that forgets to count the node it leaves to the right
RECURSIVE selectNode_offByOne(_, _, _)
selectNode_offByOne(h, current, k) ==
  IF current # nil
    THEN
      LET leftSize == SizeOf(h, Left(h, current)) IN
      IF k < leftSize
        THEN selectNode_offByOne(h, Left(h, current), k)
        ELSE IF k = leftSize
               THEN current
               ELSE selectNode_offByOne(h, Right(h, current), k - leftSize)
    ELSE current

\* an iteration that goes right without taking anything off k
selectNodeIter_keepsK(h, current, k) ==
  LET leftSize == SizeOf(h, Left(h, current)) IN
  IF k < leftSize
    THEN [current |-> Left(h, current), k |-> k]
    ELSE [current |-> Right(h, current), k |-> k]

\* one iteration of the loop of selectNode that does not return, entered
\* with current a real node that is not the one looked for: the next current
\* and k
selectNodeIter(h, current, k) ==
  LET leftSize == SizeOf(h, Left(h, current)) IN
  IF k < leftSize
    THEN [current |-> Left(h, current), k |-> k]
    ELSE [current |-> Right(h, current), k |-> k - (leftSize + 1)]

RECURSIVE selectNode(_, _, _)
selectNode(h, current, k) ==
  IF current # nil
    THEN IF k = SizeOf(h, Left(h, current))
           THEN current
           ELSE Then(selectNodeIter(h, current, k), LAMBDA e :
                selectNode(h, e.current, e.k))
    ELSE current

\* a range check that lets k = size through
Select_offByOne(h, k) ==
  IF k < 0 \/ k > SizeOf(h, h.root)
    THEN [val |-> zero, ok |-> FALSE]
    ELSE [val |-> Key(h, selectNode(h, h.root, k)), ok |-> TRUE]

Select(h, k) ==
  IF k < 0 \/ k >= SizeOf(h, h.root)
    THEN [val |-> zero, ok |-> FALSE]
    ELSE [val |-> Key(h, selectNode(h, h.root, k)), ok |-> TRUE]

\* ------------------------------------------------------------------ Rank
\* a Rank that counts the node it stops at
RECURSIVE RankFrom_countsSelf(_, _, _, _)
RankFrom_countsSelf(h, key, rank, current) ==
  IF current # nil
    THEN IF key < Key(h, current)
           THEN RankFrom_countsSelf(h, key, rank, Left(h, current))
           ELSE IF key > Key(h, current)
                  THEN RankFrom_countsSelf(h, key,
                                           rank + SizeOf(h, Left(h, current)) + 1,
                                           Right(h, current))
                  ELSE rank + SizeOf(h, Left(h, current)) + 1
    ELSE rank

\* a Rank that does not count the node it leaves to the right
RECURSIVE RankFrom_noPlusOne(_, _, _, _)
RankFrom_noPlusOne(h, key, rank, current) ==
  IF current # nil
    THEN IF key < Key(h, current)
           THEN RankFrom_noPlusOne(h, key, rank, Left(h, current))
           ELSE IF key > Key(h, current)
                  THEN RankFrom_noPlusOne(h, key,
                                          rank + SizeOf(h, Left(h, current)),
                                          Right(h, current))
                  ELSE rank + SizeOf(h, Left(h, current))
    ELSE rank

\* an iteration that, going right, counts the node it leaves but not that
\* node's left subtree
RankIter_noLeftSize(h, key, rank, current) ==
  IF key < Key(h, current)
    THEN [rank |-> rank, current |-> Left(h, current)]
    ELSE [rank |-> rank + 1, current |-> Right(h, current)]

\* one iteration of the loop of Rank that does not break, entered with
\* current a real node whose key is not the one asked for: the next rank and
\* current
RankIter(h, key, rank, current) ==
  IF key < Key(h, current)
    THEN [rank |-> rank, current |-> Left(h, current)]
    ELSE [rank |-> rank + SizeOf(h, Left(h, current)) + 1,
          current |-> Right(h, current)]

RECURSIVE RankFrom(_, _, _, _)
RankFrom(h, key, rank, current) ==
  IF current # nil
    THEN IF key = Key(h, current)
           THEN rank + SizeOf(h, Left(h, current))
           ELSE Then(RankIter(h, key, rank, current), LAMBDA e :
                RankFrom(h, key, e.rank, e.current))
    ELSE rank

Rank(h, key) == RankFrom(h, key, 0, h.root)

\* ------------------------------------------------------------------ Size
Size(h) == SizeOf(h, h.root)

\* ------------------------------------------------------------ transplant
\* a transplant that leaves the parent link of the sentinel alone
transplant_realOnly(h, nodeToReplace, replacement) ==
  Then(IF Parent(h, nodeToReplace) = nil
         THEN SetRoot(h, replacement)
         ELSE IF nodeToReplace = Left(h, Parent(h, nodeToReplace))
                THEN SetLeft(h, Parent(h, nodeToReplace), replacement)
                ELSE SetRight(h, Parent(h, nodeToReplace), replacement),
       LAMBDA h1 :
  IF replacement # nil
    THEN SetParent(h1, replacement, Parent(h1, nodeToReplace))
    ELSE h1)

transplant(h, nodeToReplace, replacement) ==
  Then(IF Parent(h, nodeToReplace) = nil
         THEN SetRoot(h, replacement)
         ELSE IF nodeToReplace = Left(h, Parent(h, nodeToReplace))
                THEN SetLeft(h, Parent(h, nodeToReplace), replacement)
                ELSE SetRight(h, Parent(h, nodeToReplace), replacement),
       LAMBDA h1 :
  SetParent(h1, replacement, Parent(h1, nodeToReplace)))

\* --------------------------------------------------------------- minimum
\* a minimum that does not descend
minimum_noDescent(h, node) == node

RECURSIVE minimum(_, _)
minimum(h, node) ==
  IF Left(h, node) # nil THEN minimum(h, Left(h, node)) ELSE node

\* ------------------------------------------------------ updateSizeUpward
\* a walk that recomputes the size of the first node only
updateSizeUpward_noWalk(h, node) ==
  IF node # nil
    THEN SetSize(h, node,
                 SizeOf(h, Left(h, node)) + SizeOf(h, Right(h, node)) + 1)
    ELSE h

\* an iteration that recomputes the size and forgets node = node.parent
updateSizeUpwardIter_noMove(h, node) ==
  Then(SetSize(h, node,
               SizeOf(h, Left(h, node)) + SizeOf(h, Right(h, node)) + 1),
       LAMBDA h1 :
  [h |-> h1, node |-> node])

\* one iteration of the loop of updateSizeUpward, entered with node a real
\* node: the heap it leaves and the next node
updateSizeUpwardIter(h, node) ==
  Then(SetSize(h, node,
               SizeOf(h, Left(h, node)) + SizeOf(h, Right(h, node)) + 1),
       LAMBDA h1 :
  [h |-> h1, node |-> Parent(h1, node)])

RECURSIVE updateSizeUpward(_, _)
updateSizeUpward(h, node) ==
  IF node # nil
    THEN Then(updateSizeUpwardIter(h, node), LAMBDA e :
         updateSizeUpward(e.h, e.node))
    ELSE h

\* ----------------------------------------------------------- deleteFixup
\* Case 1 of deleteFixup, node a left child: sibling is RED
deleteCase1Left(h, node) ==
  LET sibling == Right(h, Parent(h, node)) IN
  IF ColorOf(h, sibling) = RED
    THEN
      Then(SetColor(h, sibling, BLACK), LAMBDA h1 :
      Then(SetColor(h1, Parent(h1, node), RED), LAMBDA h2 :
      leftRotate(h2, Parent(h2, node))))
    ELSE h

\* a Case 3 that rotates the sibling without looking at its children
deleteCase3Left_noTest(h, node) ==
  LET sibling == Right(h, Parent(h, node)) IN
  Then(SetColor(h, Left(h, sibling), BLACK), LAMBDA h1 :
  Then(SetColor(h1, sibling, RED), LAMBDA h2 :
  rightRotate(h2, sibling)))

\* Case 3 of deleteFixup, node a left child: sibling's right child is BLACK
deleteCase3Left(h, node) ==
  LET sibling == Right(h, Parent(h, node)) IN
  IF ColorOf(h, Right(h, sibling)) = BLACK
    THEN
      Then(SetColor(h, Left(h, sibling), BLACK), LAMBDA h1 :
      Then(SetColor(h1, sibling, RED), LAMBDA h2 :
      rightRotate(h2, sibling)))
    ELSE h

\* Case 4 of deleteFixup, node a left child
deleteCase4Left(h, node) ==
  LET sibling == Right(h, Parent(h, node)) IN
  Then(SetColor(h, sibling, ColorOf(h, Parent(h, node))), LAMBDA h1 :
  Then(SetColor(h1, Parent(h1, node), BLACK), LAMBDA h2 :
  Then(SetColor(h2, Right(h2, sibling), BLACK), LAMBDA h3 :
  leftRotate(h3, Parent(h3, node)))))

\* Case 1 of deleteFixup, node a right child: sibling is RED
deleteCase1Right(h, node) ==
  LET sibling == Left(h, Parent(h, node)) IN
  IF ColorOf(h, sibling) = RED
    THEN
      Then(SetColor(h, sibling, BLACK), LAMBDA h1 :
      Then(SetColor(h1, Parent(h1, node), RED), LAMBDA h2 :
      rightRotate(h2, Parent(h2, node))))
    ELSE h

\* Case 3 of deleteFixup, node a right child: sibling's left child is BLACK
deleteCase3Right(h, node) ==
  LET sibling == Left(h, Parent(h, node)) IN
  IF ColorOf(h, Left(h, sibling)) = BLACK
    THEN
      Then(SetColor(h, Right(h, sibling), BLACK), LAMBDA h1 :
      Then(SetColor(h1, sibling, RED), LAMBDA h2 :
      leftRotate(h2, sibling)))
    ELSE h

\* Case 4 of deleteFixup, node a right child
deleteCase4Right(h, node) ==
  LET sibling == Left(h, Parent(h, node)) IN
  Then(SetColor(h, sibling, ColorOf(h, Parent(h, node))), LAMBDA h1 :
  Then(SetColor(h1, Parent(h1, node), BLACK), LAMBDA h2 :
  Then(SetColor(h2, Left(h2, sibling), BLACK), LAMBDA h3 :
  rightRotate(h3, Parent(h3, node)))))

\* a Case 2 that reddens the current node in place of its sibling
deleteCase2_reddensNode(h, node, sibling) ==
  Then(SetColor(h, node, RED), LAMBDA h1 :
  [h |-> h1, node |-> Parent(h1, node)])

\* Case 2 of deleteFixup (either side): sibling's children are both BLACK
deleteCase2(h, node, sibling) ==
  Then(SetColor(h, sibling, RED), LAMBDA h1 :
  [h |-> h1, node |-> Parent(h1, node)])

\* an iteration whose Case 4 does not move the current node to the root
deleteFixupIter_staysBelow(h, node) ==
  IF node = Left(h, Parent(h, node))
    THEN
      Then(deleteCase1Left(h, node), LAMBDA h1 :
      LET sibling == Right(h1, Parent(h1, node)) IN
      IF ColorOf(h1, Left(h1, sibling)) = BLACK
           /\ ColorOf(h1, Right(h1, sibling)) = BLACK
        THEN deleteCase2(h1, node, sibling)
        ELSE
          Then(deleteCase3Left(h1, node), LAMBDA h2 :
          Then(deleteCase4Left(h2, node), LAMBDA h3 :
          [h |-> h3, node |-> node])))
    ELSE
      \* Mirror cases: node is right child
      Then(deleteCase1Right(h, node), LAMBDA h1 :
      LET sibling == Left(h1, Parent(h1, node)) IN
      IF ColorOf(h1, Right(h1, sibling)) = BLACK
           /\ ColorOf(h1, Left(h1, sibling)) = BLACK
        THEN deleteCase2(h1, node, sibling)
        ELSE
          Then(deleteCase3Right(h1, node), LAMBDA h2 :
          Then(deleteCase4Right(h2, node), LAMBDA h3 :
          [h |-> h3, node |-> node])))

\* one iteration of the loop of deleteFixup, entered with node BLACK and not
\* the root: the heap it leaves and the node the next iteration starts from.
\* After Case 1 and after Case 3 the code re-reads sibling from node.parent,
\* which is what the next case starts with here.
deleteFixupIter(h, node) ==
  IF node = Left(h, Parent(h, node))
    THEN
      Then(deleteCase1Left(h, node), LAMBDA h1 :
      LET sibling == Right(h1, Parent(h1, node)) IN
      IF ColorOf(h1, Left(h1, sibling)) = BLACK
           /\ ColorOf(h1, Right(h1, sibling)) = BLACK
        THEN deleteCase2(h1, node, sibling)
        ELSE
          Then(deleteCase3Left(h1, node), LAMBDA h2 :
          Then(deleteCase4Left(h2, node), LAMBDA h3 :
          [h |-> h3, node |-> h3.root])))
    ELSE
      \* Mirror cases: node is right child
      Then(deleteCase1Right(h, node), LAMBDA h1 :
      LET sibling == Left(h1, Parent(h1, node)) IN
      IF ColorOf(h1, Right(h1, sibling)) = BLACK
           /\ ColorOf(h1, Left(h1, sibling)) = BLACK
        THEN deleteCase2(h1, node, sibling)
        ELSE
          Then(deleteCase3Right(h1, node), LAMBDA h2 :
          Then(deleteCase4Right(h2, node), LAMBDA h3 :
          [h |-> h3, node |-> h3.root])))

\* the loop of deleteFixup; the result is the heap and the current node at
\* loop exit
RECURSIVE deleteFixupLoop(_, _)
deleteFixupLoop(h, node) ==
  IF node # h.root /\ ColorOf(h, node) = BLACK
    THEN Then(deleteFixupIter(h, node), LAMBDA e :
         deleteFixupLoop(e.h, e.node))
    ELSE [h |-> h, node |-> node]

\* a fixup that skips the loop and only blackens the node it is given
deleteFixup_noLoop(h, node) == SetColor(h, node, BLACK)

deleteFixup(h, node) ==
  Then(deleteFixupLoop(h, node), LAMBDA e :
  SetColor(e.h, e.node, BLACK))

\* ------------------------------------------------------------ deleteNode
\* a splice that leaves the successor its own color
SpliceSuccessor_ownColor(h, nodeToDelete, nodeActuallyDeleted, replacementNode) ==
  Then(IF Parent(h, nodeActuallyDeleted) = nodeToDelete
         THEN SetParent(h, replacementNode, nodeActuallyDeleted)
         ELSE
           Then(transplant(h, nodeActuallyDeleted, Right(h, nodeActuallyDeleted)),
                LAMBDA h1 :
           Then(SetRight(h1, nodeActuallyDeleted, Right(h1, nodeToDelete)),
                LAMBDA h2 :
           SetParent(h2, Right(h2, nodeActuallyDeleted), nodeActuallyDeleted))),
       LAMBDA h3 :
  Then(transplant(h3, nodeToDelete, nodeActuallyDeleted), LAMBDA h4 :
  Then(SetLeft(h4, nodeActuallyDeleted, Left(h4, nodeToDelete)), LAMBDA h5 :
  SetParent(h5, Left(h5, nodeActuallyDeleted), nodeActuallyDeleted))))

\* the two-children case of deleteNode up to the end of the splice
SpliceSuccessor(h, nodeToDelete, nodeActuallyDeleted, replacementNode) ==
  Then(IF Parent(h, nodeActuallyDeleted) = nodeToDelete
         THEN SetParent(h, replacementNode, nodeActuallyDeleted)
         ELSE
           Then(transplant(h, nodeActuallyDeleted, Right(h, nodeActuallyDeleted)),
                LAMBDA h1 :
           Then(SetRight(h1, nodeActuallyDeleted, Right(h1, nodeToDelete)),
                LAMBDA h2 :
           SetParent(h2, Right(h2, nodeActuallyDeleted), nodeActuallyDeleted))),
       LAMBDA h3 :
  Then(transplant(h3, nodeToDelete, nodeActuallyDeleted), LAMBDA h4 :
  Then(SetLeft(h4, nodeActuallyDeleted, Left(h4, nodeToDelete)), LAMBDA h5 :
  Then(SetParent(h5, Left(h5, nodeActuallyDeleted), nodeActuallyDeleted),
       LAMBDA h6 :
  SetColor(h6, nodeActuallyDeleted, ColorOf(h6, nodeToDelete))))))

\* a splice that remembers the color of the target, not of its successor
SpliceTwo_targetColor(h, nodeToDelete, nodeActuallyDeleted) ==
  [h |-> SpliceSuccessor(h, nodeToDelete, nodeActuallyDeleted,
                         Right(h, nodeActuallyDeleted)),
   nodeActuallyDeleted |-> nodeActuallyDeleted,
   replacementNode |-> Right(h, nodeActuallyDeleted),
   originalColor |-> ColorOf(h, nodeToDelete)]

\* the two-children case of deleteNode once the successor is found, up to
\* the end of the splice
SpliceTwo(h, nodeToDelete, nodeActuallyDeleted) ==
  [h |-> SpliceSuccessor(h, nodeToDelete, nodeActuallyDeleted,
                         Right(h, nodeActuallyDeleted)),
   nodeActuallyDeleted |-> nodeActuallyDeleted,
   replacementNode |-> Right(h, nodeActuallyDeleted),
   originalColor |-> ColorOf(h, nodeActuallyDeleted)]

\* deleteNode up to the end of the splice: the heap, the replacement node
\* and the color of the node physically removed
Splice(h, nodeToDelete) ==
  IF Left(h, nodeToDelete) = nil
    THEN \* Node has no left child
      [h |-> transplant(h, nodeToDelete, Right(h, nodeToDelete)),
       nodeActuallyDeleted |-> nodeToDelete,
       replacementNode |-> Right(h, nodeToDelete),
       originalColor |-> ColorOf(h, nodeToDelete)]
    ELSE IF Right(h, nodeToDelete) = nil
      THEN \* Node has no right child
        [h |-> transplant(h, nodeToDelete, Left(h, nodeToDelete)),
         nodeActuallyDeleted |-> nodeToDelete,
         replacementNode |-> Left(h, nodeToDelete),
         originalColor |-> ColorOf(h, nodeToDelete)]
      ELSE \* Node has two children - find successor
        SpliceTwo(h, nodeToDelete, minimum(h, Right(h, nodeToDelete)))

\* a deleteNode that runs the fixup whatever the color of the removed node
deleteNode_alwaysFixup(h, nodeToDelete) ==
  Then(Splice(h, nodeToDelete), LAMBDA s :
  Then(updateSizeUpward(s.h, Parent(s.h, s.replacementNode)), LAMBDA h1 :
  deleteFixup(h1, s.replacementNode)))

\* a deleteNode that never runs the fixup
deleteNode_noFixup(h, nodeToDelete) ==
  Then(Splice(h, nodeToDelete), LAMBDA s :
  updateSizeUpward(s.h, Parent(s.h, s.replacementNode)))

deleteNode(h, nodeToDelete) ==
  Then(Splice(h, nodeToDelete), LAMBDA s :
  \* Update sizes from the deletion point upward
  Then(updateSizeUpward(s.h, Parent(s.h, s.replacementNode)), LAMBDA h1 :
  IF s.originalColor = BLACK
    THEN deleteFixup(h1, s.replacementNode)
    ELSE h1))

\* the node taken out of the tree is no longer referenced by the tree and
\* its storage is released; only the address may survive, in a stale
\* parent link of the sentinel
Release(h, node) ==
  [h EXCEPT !.n = [x \in (DOMAIN h.n) \ {node} |-> h.n[x]]]

\* ---------------------------------------------------------------- Delete
\* a Delete without the early return for a key that is not found
Delete_noCheck(h, key) ==
  Then(search(h, key), LAMBDA nodeToDelete :
  [h |-> deleteNode(h, nodeToDelete), ok |-> nodeToDelete # nil])

\* a Delete that reports success on the last element without unlinking it
Delete_keepsLast(h, key) ==
  Then(search(h, key), LAMBDA nodeToDelete :
  IF nodeToDelete = nil
    THEN [h |-> h, ok |-> FALSE]
    ELSE IF SizeOf(h, h.root) = 1
           THEN [h |-> h, ok |-> TRUE]
           ELSE [h |-> Release(deleteNode(h, nodeToDelete), nodeToDelete),
                 ok |-> TRUE])

Delete(h, key) ==
  Then(search(h, key), LAMBDA nodeToDelete :
  IF nodeToDelete = nil
    THEN [h |-> h, ok |-> FALSE]
    ELSE [h |-> Release(deleteNode(h, nodeToDelete), nodeToDelete), ok |-> TRUE])

\* =================================================================== model
Live(h) == (DOMAIN h.n) \ {nil}

RECURSIVE Ascending(_)
Ascending(S) ==
  IF S = {}
    THEN <<>>
    ELSE LET m == CHOOSE a \in S : \A b \in S : a <= b
         IN  <<m>> \o Ascending(S \ {m})

\* Pointer values are observable only through == and != (the code never
\* orders or prints them), so a heap is kept up to renaming of addresses.
\* Canon(h) is the representative in which the nodes reachable from the
\* root are numbered 1, 2, ... in in-order, any other live node follows in
\* ascending address order, and an address of a released node is Gone.
Order(h) ==
  Then(InOrderNodes(h, h.root), LAMBDA inTree :
  inTree \o Ascending(Live(h) \ Range(inTree)))

\* the new address of every live node: its place in order
Index(order) == [a \in Range(order) |-> CHOOSE i \in 1..Len(order) : order[i] = a]

Rename(index, a) ==
  IF a = nil THEN nil
  ELSE IF a \in DOMAIN index THEN index[a] ELSE Gone

Canon(h) ==
  Then(Order(h), LAMBDA order :
  Then(Index(order), LAMBDA index :
  [root |-> Rename(index, h.root),
   n |-> [i \in 0..Len(order) |->
            Then(h.n[IF i = 0 THEN nil ELSE order[i]], LAMBDA r :
            Node(r.key, Rename(index, r.left), Rename(index, r.right),
                 Rename(index, r.parent), r.color, r.size))]]))

Init ==
  /\ root = NewTree.root
  /\ nodes = NewTree.n
  /\ op = "NewTree"
  /\ arg = zero
  /\ ret = [val |-> zero, ok |-> TRUE]
  /\ net = [key \in AllKeys |-> 0]
  /\ frame = Idle
  /\ calls = [t \in Readers |-> NoCall]
  /\ rotations = NoRotations

\* the call t.Insert(key)
InsertCall(key) ==
  LET w == Insert(Watch(T), key)
      h == Canon(w)
  IN
  /\ root' = h.root
  /\ nodes' = h.n
  /\ op' = "Insert"
  /\ arg' = key
  /\ ret' = [val |-> zero, ok |-> TRUE]
  /\ net' = [net EXCEPT ![key] = @ + 1]
  /\ rotations' = w.rot
  /\ UNCHANGED <<frame, calls>>

\* the call t.Delete(key)
DeleteCall(key) ==
  LET d == Delete(Watch(T), key)
      h == Canon(d.h)
  IN
  /\ root' = h.root
  /\ nodes' = h.n
  /\ op' = "Delete"
  /\ arg' = key
  /\ ret' = [val |-> zero, ok |-> d.ok]
  /\ net' = [net EXCEPT ![key] = @ - (IF d.ok THEN 1 ELSE 0)]
  /\ rotations' = d.h.rot
  /\ UNCHANGED <<frame, calls>>

DoInsert ==
  /\ Cardinality(Live(T)) < MaxNodes
  /\ \E key \in Keys : InsertCall(key)

DoDelete == \E key \in Keys : DeleteCall(key)

\* a Search that parks the key in the sentinel so that its loop needs no
\* test against the sentinel
DoSearch_sentinelKey ==
  \E key \in Keys :
    /\ op' = "Search"
    /\ arg' = key
    /\ ret' = [val |-> zero, ok |-> Search(T, key)]
    /\ nodes' = [nodes EXCEPT ![nil].key = key]
    /\ UNCHANGED <<root, net, frame, calls, rotations>>

DoSearch ==
  \E key \in Keys :
    /\ op' = "Search"
    /\ arg' = key
    /\ ret' = [val |-> zero, ok |-> Search(T, key)]
    /\ UNCHANGED <<root, nodes, net, frame, calls, rotations>>

DoSelect ==
  \E k \in Indexes :
    /\ op' = "Select"
    /\ arg' = k
    /\ ret' = Select(T, k)
    /\ UNCHANGED <<root, nodes, net, frame, calls, rotations>>

DoRank ==
  \E key \in Keys :
    /\ op' = "Rank"
    /\ arg' = key
    /\ ret' = [val |-> Rank(T, key), ok |-> TRUE]
    /\ UNCHANGED <<root, nodes, net, frame, calls, rotations>>

DoSize ==
  /\ op' = "Size"
  /\ arg' = zero
  /\ ret' = [val |-> Size(T), ok |-> TRUE]
  /\ UNCHANGED <<root, nodes, net, frame, calls, rotations>>

\* a client that calls every operation
Next == DoInsert \/ DoDelete \/ DoSearch \/ DoSelect \/ DoRank \/ DoSize

Spec == Init /\ [][Next]_vars

\* a client that only calls Insert and Delete: it reaches the same trees
NextMutate == DoInsert \/ DoDelete

SpecMutate == Init /\ [][NextMutate]_vars

\* a client that never stores a key twice: it inserts only keys it does not
\* hold at the moment
DoInsertDistinct ==
  /\ Cardinality(Live(T)) < MaxNodes
  /\ \E key \in DistinctKeys : net[key] = 0 /\ InsertCall(key)

DoDeleteDistinct == \E key \in DistinctKeys : DeleteCall(key)

NextDistinct == DoInsertDistinct \/ DoDeleteDistinct

SpecDistinct == Init /\ [][NextDistinct]_vars

\* ------------------------------------ Insert followed at once by Delete
\* A client that may follow an Insert by the Delete of the same key, with
\* no call in between.  frame.pc is "Inserted" after such an Insert and
\* "Deleted" after the Delete that follows it; frame.key is the key and
\* frame.entry the nodes as they were when Insert was called.
InsertFirst ==
  /\ frame.pc = "idle"
  /\ Cardinality(Live(T)) < MaxNodes
  /\ \E key \in Keys :
       LET w == Insert(Watch(T), key)
           h == Canon(w)
       IN
       /\ root' = h.root
       /\ nodes' = h.n
       /\ op' = "Insert"
       /\ arg' = key
       /\ ret' = [val |-> zero, ok |-> TRUE]
       /\ net' = [net EXCEPT ![key] = @ + 1]
       /\ rotations' = w.rot
       /\ frame' = [Idle EXCEPT !.pc = "Inserted", !.key = key, !.entry = nodes]
  /\ UNCHANGED calls

\* the Delete of the key that was just inserted
DeleteNext ==
  /\ frame.pc = "Inserted"
  /\ LET d == Delete(Watch(T), frame.key)
         h == Canon(d.h)
     IN
     /\ root' = h.root
     /\ nodes' = h.n
     /\ op' = "Delete"
     /\ arg' = frame.key
     /\ ret' = [val |-> zero, ok |-> d.ok]
     /\ net' = [net EXCEPT ![frame.key] = @ - (IF d.ok THEN 1 ELSE 0)]
     /\ rotations' = d.h.rot
  /\ frame' = [frame EXCEPT !.pc = "Deleted"]
  /\ UNCHANGED calls

\* the client goes on to other calls, keeping the key it inserted or not
GoOn ==
  /\ frame.pc \in {"Inserted", "Deleted"}
  /\ frame' = Idle
  /\ UNCHANGED <<root, nodes, op, arg, ret, net, calls, rotations>>

\* a Delete of any key, not paired with an Insert
DeleteOther ==
  /\ frame.pc = "idle"
  /\ DoDelete

NextPairs == InsertFirst \/ DeleteNext \/ GoOn \/ DeleteOther

SpecPairs == Init /\ [][NextPairs]_vars

\* ------------------------------------------------- Insert and Delete in steps
\* A client that calls Insert and Delete, each call running one loop
\* iteration (or one straight-line stretch of code) at a time.  frame.pc
\* names the loop the call is at the head of.  The heap is renamed to its
\* representative when the call returns.
Goto(h, f) ==
  /\ root' = h.root
  /\ nodes' = h.n
  /\ frame' = f

\* Insert, lines 46-56: the allocation, up to the head of the descent
CallInsert ==
  /\ frame.pc = "idle"
  /\ Cardinality(Live(T)) < MaxStepNodes
  /\ \E key \in StepKeys :
       /\ Goto(Alloc(T, NewAddr(T), key),
               [Idle EXCEPT !.pc = "InsertDescent", !.key = key,
                            !.newNode = NewAddr(T), !.current = root,
                            !.entry = nodes])
       /\ net' = [net EXCEPT ![key] = @ + 1]
  /\ rotations' = NoRotations
  /\ UNCHANGED <<op, arg, ret, calls>>

\* Insert, lines 59-68: one iteration of the descent
InsertDescentStep ==
  /\ frame.pc = "InsertDescent"
  /\ frame.current # nil
  /\ LET e == InsertDescentIter(T, frame.key, frame.current) IN
     Goto(e.h, [frame EXCEPT !.parent = frame.current, !.current = e.current])
  /\ UNCHANGED <<op, arg, ret, net, calls, rotations>>

\* Insert, lines 71-81: the attachment, up to the head of the loop of
\* insertFixup
InsertAttachStep ==
  /\ frame.pc = "InsertDescent"
  /\ frame.current = nil
  /\ Goto(Attach(T, frame.newNode, frame.parent),
          [frame EXCEPT !.pc = "insertFixup", !.current = frame.newNode,
                        !.parent = nil])
  /\ UNCHANGED <<op, arg, ret, net, calls, rotations>>

\* insertFixup, lines 86-130: one iteration of the loop
insertFixupStep ==
  /\ frame.pc = "insertFixup"
  /\ ColorOf(T, Parent(T, frame.current)) = RED
  /\ LET e == insertFixupIter(Watched(T, rotations), frame.current) IN
     /\ Goto(e.h, [frame EXCEPT !.current = e.node])
     /\ rotations' = e.h.rot
  /\ UNCHANGED <<op, arg, ret, net, calls>>

\* insertFixup, line 131, and the return of Insert
InsertReturn ==
  /\ frame.pc = "insertFixup"
  /\ ColorOf(T, Parent(T, frame.current)) # RED
  /\ Goto(Canon(SetColor(T, root, BLACK)), Idle)
  /\ UNCHANGED <<op, arg, ret, net, calls, rotations>>

\* Delete, line 247, up to the head of the loop of search
CallDelete ==
  /\ frame.pc = "idle"
  /\ \E key \in StepKeys :
       frame' = [Idle EXCEPT !.pc = "search", !.key = key, !.current = root,
                             !.stale = Parent(T, nil)]
  /\ rotations' = NoRotations
  /\ UNCHANGED <<root, nodes, op, arg, ret, net, calls>>

\* search, lines 188-194: one iteration of the loop
searchStep ==
  /\ frame.pc = "search"
  /\ frame.current # nil /\ frame.key # Key(T, frame.current)
  /\ frame' = [frame EXCEPT !.current = searchIter(T, frame.key, frame.current)]
  /\ UNCHANGED <<root, nodes, op, arg, ret, net, calls, rotations>>

\* Delete, lines 248-250: the key is not found
DeleteNotFound ==
  /\ frame.pc = "search"
  /\ frame.current = nil
  /\ frame' = Idle
  /\ UNCHANGED <<root, nodes, op, arg, ret, net, calls, rotations>>

\* Delete, line 252: the key is found, deleteNode starts
DeleteFound ==
  /\ frame.pc = "search"
  /\ frame.current # nil /\ frame.key = Key(T, frame.current)
  /\ frame' = [frame EXCEPT !.pc = "deleteNode", !.nodeToDelete = frame.current,
                            !.current = nil]
  /\ UNCHANGED <<root, nodes, op, arg, ret, net, calls, rotations>>

\* the node that is, once the splice is over, the parent of the place that
\* nodeActuallyDeleted is taken out of: its parent before the splice, or
\* the node itself when it is the successor of nodeToDelete and its right
\* child (it moves up with its right subtree below it)
SplicedBelow(h, nodeToDelete, nodeActuallyDeleted) ==
  IF nodeActuallyDeleted # nodeToDelete
       /\ Parent(h, nodeActuallyDeleted) = nodeToDelete
    THEN nodeActuallyDeleted
    ELSE Parent(h, nodeActuallyDeleted)

\* a deleteNode that starts the walk at the replacement node itself
AfterSplice_fromReplacement(s) ==
  Goto(s.h, [frame EXCEPT !.pc = "updateSizeUpward",
                          !.nodeActuallyDeleted = s.nodeActuallyDeleted,
                          !.replacementNode = s.replacementNode,
                          !.originalColor = s.originalColor,
                          !.below = SplicedBelow(T, frame.nodeToDelete,
                                                 s.nodeActuallyDeleted),
                          !.current = s.replacementNode])

\* what deleteNode goes on with after the splice: updateSizeUpward from
\* replacementNode.parent
AfterSplice(s) ==
  Goto(s.h, [frame EXCEPT !.pc = "updateSizeUpward",
                          !.nodeActuallyDeleted = s.nodeActuallyDeleted,
                          !.replacementNode = s.replacementNode,
                          !.originalColor = s.originalColor,
                          !.below = SplicedBelow(T, frame.nodeToDelete,
                                                 s.nodeActuallyDeleted),
                          !.current = Parent(s.h, s.replacementNode)])

\* deleteNode, lines 261-268: the node has at most one child
SpliceOneChild ==
  /\ frame.pc = "deleteNode"
  /\ Left(T, frame.nodeToDelete) = nil \/ Right(T, frame.nodeToDelete) = nil
  /\ AfterSplice(Splice(T, frame.nodeToDelete))
  /\ UNCHANGED <<op, arg, ret, net, calls, rotations>>

\* deleteNode, lines 269-271: the node has two children, minimum starts
MinimumStart ==
  /\ frame.pc = "deleteNode"
  /\ Left(T, frame.nodeToDelete) # nil /\ Right(T, frame.nodeToDelete) # nil
  /\ frame' = [frame EXCEPT !.pc = "minimum",
                            !.current = Right(T, frame.nodeToDelete)]
  /\ UNCHANGED <<root, nodes, op, arg, ret, net, calls, rotations>>

\* minimum, lines 311-313: one iteration of the loop
minimumStep ==
  /\ frame.pc = "minimum"
  /\ Left(T, frame.current) # nil
  /\ frame' = [frame EXCEPT !.current = Left(T, frame.current)]
  /\ UNCHANGED <<root, nodes, op, arg, ret, net, calls, rotations>>

\* deleteNode, lines 271-286: the successor is found and spliced in
SpliceTwoChildren ==
  /\ frame.pc = "minimum"
  /\ Left(T, frame.current) = nil
  /\ AfterSplice(SpliceTwo(T, frame.nodeToDelete, frame.current))
  /\ UNCHANGED <<op, arg, ret, net, calls, rotations>>

\* updateSizeUpward, lines 319-322: one iteration of the loop
updateSizeUpwardStep ==
  /\ frame.pc = "updateSizeUpward"
  /\ frame.current # nil
  /\ LET e == updateSizeUpwardIter(T, frame.current) IN
     Goto(e.h, [frame EXCEPT !.current = e.node])
  /\ UNCHANGED <<op, arg, ret, net, calls, rotations>>

\* deleteNode, lines 292-294: the removed node was BLACK, deleteFixup starts
DeleteFixupStart ==
  /\ frame.pc = "updateSizeUpward"
  /\ frame.current = nil
  /\ frame.originalColor = BLACK
  /\ frame' = [frame EXCEPT !.pc = "deleteFixup",
                            !.current = frame.replacementNode]
  /\ UNCHANGED <<root, nodes, op, arg, ret, net, calls, rotations>>

\* Delete, line 253: deleteNode is over, the removed node is released and
\* Delete returns true
ReturnTrue(h) ==
  /\ Goto(Canon(Release(h, frame.nodeToDelete)), Idle)
  /\ net' = [net EXCEPT ![frame.key] = @ - 1]

\* deleteNode, lines 292-295: the removed node was RED, Delete returns true
DeleteReturnRed ==
  /\ frame.pc = "updateSizeUpward"
  /\ frame.current = nil
  /\ frame.originalColor = RED
  /\ ReturnTrue(T)
  /\ UNCHANGED <<op, arg, ret, calls, rotations>>

\* deleteFixup, lines 327-386: one iteration of the loop
deleteFixupStep ==
  /\ frame.pc = "deleteFixup"
  /\ frame.current # root /\ ColorOf(T, frame.current) = BLACK
  /\ LET e == deleteFixupIter(Watched(T, rotations), frame.current) IN
     /\ Goto(e.h, [frame EXCEPT !.current = e.node])
     /\ rotations' = e.h.rot
  /\ UNCHANGED <<op, arg, ret, net, calls>>

\* deleteFixup, line 387, and the return of Delete
DeleteReturnBlack ==
  /\ frame.pc = "deleteFixup"
  /\ ~(frame.current # root /\ ColorOf(T, frame.current) = BLACK)
  /\ ReturnTrue(SetColor(T, frame.current, BLACK))
  /\ UNCHANGED <<op, arg, ret, calls, rotations>>

\* the steps of a call that is under way
Continue ==
  \/ InsertDescentStep \/ InsertAttachStep \/ insertFixupStep \/ InsertReturn
  \/ searchStep \/ DeleteNotFound \/ DeleteFound
  \/ SpliceOneChild \/ MinimumStart \/ minimumStep \/ SpliceTwoChildren
  \/ updateSizeUpwardStep \/ DeleteFixupStart \/ DeleteReturnRed
  \/ deleteFixupStep \/ DeleteReturnBlack

NextSteps == CallInsert \/ CallDelete \/ Continue

\* the code is sequential and nothing in it blocks: a call that is under
\* way keeps taking steps
SpecSteps == Init /\ [][NextSteps]_vars /\ WF_vars(Continue)

\* ------------------------------------------- read operations side by side
\* Goroutines that call Search, Select, Rank and Size at the same time, each
\* call running one loop iteration at a time on locals of its own, while a
\* client that synchronises its writes as the documentation requires calls
\* Insert and Delete only when no read is under way.  op, arg and ret are
\* those of the call that returned last.
Quiet == \A t \in Readers : calls[t].pc = "idle"

\* the arguments tried for Select by the goroutines
ReadIndexes == (0 - 1)..(MaxReadNodes + 1)

\* a read call of goroutine t moves on without returning
ReadGoto(t, c) ==
  /\ calls' = [calls EXCEPT ![t] = c]
  /\ UNCHANGED <<root, nodes, op, arg, ret, net, frame, rotations>>

\* a read call of goroutine t returns
ReadReturn(t, name, a, r) ==
  /\ calls' = [calls EXCEPT ![t] = NoCall]
  /\ op' = name
  /\ arg' = a
  /\ ret' = r
  /\ UNCHANGED <<root, nodes, net, frame, rotations>>

\* a client that does not synchronise: it calls Insert while reads are
\* under way
InsertQuiet_unsynchronised ==
  /\ Cardinality(Live(T)) < MaxReadNodes
  /\ \E key \in ReadKeys :
       /\ root' = Insert(T, key).root
       /\ nodes' = Insert(T, key).n
       /\ op' = "Insert"
       /\ arg' = key
       /\ ret' = [val |-> zero, ok |-> TRUE]
       /\ net' = [net EXCEPT ![key] = @ + 1]
       /\ UNCHANGED <<frame, calls, rotations>>

\* Insert, called with no read under way
InsertQuiet ==
  /\ Quiet
  /\ Cardinality(Live(T)) < MaxReadNodes
  /\ \E key \in ReadKeys : InsertCall(key)

\* Delete, called with no read under way
DeleteQuiet ==
  /\ Quiet
  /\ \E key \in ReadKeys : DeleteCall(key)

\* search, line 187: current := t.root
CallSearch(t) ==
  /\ calls[t].pc = "idle"
  /\ \E key \in ReadKeys :
       ReadGoto(t, [NoCall EXCEPT !.pc = "search", !.arg = key, !.current = root])

\* search, lines 188-194: one iteration of the loop
searchLoop(t) ==
  /\ calls[t].pc = "search"
  /\ calls[t].current # nil /\ calls[t].arg # Key(T, calls[t].current)
  /\ ReadGoto(t, [calls[t] EXCEPT
                    !.current = searchIter(T, calls[t].arg, calls[t].current)])

\* search, line 195, and Search, line 183
SearchReturn(t) ==
  /\ calls[t].pc = "search"
  /\ ~(calls[t].current # nil /\ calls[t].arg # Key(T, calls[t].current))
  /\ ReadReturn(t, "Search", calls[t].arg,
                [val |-> zero, ok |-> calls[t].current # nil])

\* Select, lines 201-203: k is out of range
SelectOutOfRange(t) ==
  /\ calls[t].pc = "idle"
  /\ \E k \in ReadIndexes :
       /\ k < 0 \/ k >= SizeOf(T, root)
       /\ ReadReturn(t, "Select", k, [val |-> zero, ok |-> FALSE])

\* Select, lines 201-205: k is in range, selectNode starts at the root
CallSelect(t) ==
  /\ calls[t].pc = "idle"
  /\ \E k \in ReadIndexes :
       /\ ~(k < 0 \/ k >= SizeOf(T, root))
       /\ ReadGoto(t, [NoCall EXCEPT !.pc = "selectNode", !.arg = k, !.k = k,
                                     !.current = root])

\* selectNode, lines 210-220: one iteration of the loop that does not return
selectNodeStep(t) ==
  /\ calls[t].pc = "selectNode"
  /\ calls[t].current # nil
  /\ calls[t].k # SizeOf(T, Left(T, calls[t].current))
  /\ LET e == selectNodeIter(T, calls[t].current, calls[t].k) IN
     ReadGoto(t, [calls[t] EXCEPT !.current = e.current, !.k = e.k])

\* selectNode, lines 214-215 and 221, and Select, line 206
SelectReturn(t) ==
  /\ calls[t].pc = "selectNode"
  /\ \/ calls[t].current = nil
     \/ calls[t].k = SizeOf(T, Left(T, calls[t].current))
  /\ ReadReturn(t, "Select", calls[t].arg,
                [val |-> Key(T, calls[t].current), ok |-> TRUE])

\* Rank, lines 226-227: rank := 0; current := t.root
CallRank(t) ==
  /\ calls[t].pc = "idle"
  /\ \E key \in 0..(MaxReadKey + 1) :
       ReadGoto(t, [NoCall EXCEPT !.pc = "Rank", !.arg = key, !.current = root])

\* Rank, lines 229-235: one iteration of the loop that does not break
RankStep(t) ==
  /\ calls[t].pc = "Rank"
  /\ calls[t].current # nil /\ calls[t].arg # Key(T, calls[t].current)
  /\ LET e == RankIter(T, calls[t].arg, calls[t].rank, calls[t].current) IN
     ReadGoto(t, [calls[t] EXCEPT !.rank = e.rank, !.current = e.current])

\* Rank, lines 236-242: the loop is left, by the break or at the sentinel
RankReturn(t) ==
  /\ calls[t].pc = "Rank"
  /\ \/ calls[t].current = nil
     \/ calls[t].arg = Key(T, calls[t].current)
  /\ ReadReturn(t, "Rank", calls[t].arg,
                [val |-> IF calls[t].current = nil
                           THEN calls[t].rank
                           ELSE calls[t].rank
                                  + SizeOf(T, Left(T, calls[t].current)),
                 ok |-> TRUE])

\* Size: one read of the size field of the root
CallSize(t) ==
  /\ calls[t].pc = "idle"
  /\ ReadReturn(t, "Size", zero, [val |-> Size(T), ok |-> TRUE])

\* the steps of goroutine t
Read(t) ==
  \/ CallSearch(t) \/ searchLoop(t) \/ SearchReturn(t)
  \/ SelectOutOfRange(t) \/ CallSelect(t) \/ selectNodeStep(t) \/ SelectReturn(t)
  \/ CallRank(t) \/ RankStep(t) \/ RankReturn(t)
  \/ CallSize(t)

NextReaders == InsertQuiet \/ DeleteQuiet \/ \E t \in Readers : Read(t)

SpecReaders == Init /\ [][NextReaders]_vars

\* ============================================================== properties
\* in a sequence of keys: the number of occurrences of v, of keys strictly
\* less than v, and of keys at most v
Occurs(keys, v) == Cardinality({i \in 1..Len(keys) : keys[i] = v})
Below(keys, v) == Cardinality({i \in 1..Len(keys) : keys[i] < v})
UpTo(keys, v) == Cardinality({i \in 1..Len(keys) : keys[i] <= v})

\* number of stored occurrences of key v
Count(h, v) == Occurs(TreeKeys(h), v)
\* number of stored elements strictly less than v
CountLess(h, v) == Below(TreeKeys(h), v)

\* element k (0-indexed) of the sorted sequence of the keys: the least key
\* with more than k elements at or below it
SortedAt(keys, k) ==
  CHOOSE v \in Keys : UpTo(keys, v) > k /\ \A w \in Keys : UpTo(keys, w) > k => v <= w
Sorted(h, k) == SortedAt(TreeKeys(h), k)

\* keys of the subtree rooted at x
SubKeys(h, x) == {Key(h, y) : y \in Range(InOrderNodes(h, x))}

\* verifySizes: the size equation at every real node
SizeInv(h) ==
  \A x \in Live(h) :
    SizeOf(h, x) = SizeOf(h, Left(h, x)) + SizeOf(h, Right(h, x)) + 1

\* checkBlackHeight: the numbers of BLACK real nodes on the paths from x
\* down to the sentinel
RECURSIVE BlackCounts(_, _)
BlackCounts(h, x) ==
  IF x = nil
    THEN {0}
    ELSE {b + (IF ColorOf(h, x) = BLACK THEN 1 ELSE 0) :
            b \in BlackCounts(h, Left(h, x)) \cup BlackCounts(h, Right(h, x))}

\* checkNoRedRedViolation
NoRedRed(h) ==
  \A x \in Range(TreeNodes(h)) :
    ColorOf(h, x) = RED =>
      ColorOf(h, Left(h, x)) # RED /\ ColorOf(h, Right(h, x)) # RED

\* the queries tried for Rank: every key that can be stored and one absent
\* key below and above them
RankKeys == 0..(MaxKey + 1)

\* C1: after every Insert and Delete, every real node's size is the sum of
\* its children's sizes plus one (the sentinel counting 0)
C1_SizeInvariant == SizeInv(T) /\ SizeOf(T, nil) = 0
C1_Witness ==
  op = "Delete" /\ ret.ok /\ Size(T) >= 4 /\ Left(T, root) # nil /\ Right(T, root) # nil

\* C2: after every Insert and Delete all paths from the root down to the
\* sentinel pass through the same number of BLACK nodes
C2_BlackHeight == Cardinality(BlackCounts(T, root)) = 1
C2_Witness ==
  op = "Delete" /\ ret.ok /\ Size(T) >= 3 /\ BlackCounts(T, root) = {2}

\* C3: after every Insert and Delete no RED node has a RED left or right
\* child
C3_NoRedRed == NoRedRed(T)
C3_Witness ==
  /\ op = "Insert"
  /\ \E x \in Live(T) : ColorOf(T, x) = RED /\ Left(T, x) # nil /\ Right(T, x) # nil

\* C4: after every Insert and Delete the root of a non-empty tree is BLACK
C4_RootBlack == root # nil => ColorOf(T, root) = BLACK
C4_Witness == op = "Insert" /\ Size(T) = 1 /\ ColorOf(T, root) = BLACK

\* C5: the in-order traversal is non-decreasing: at every node the keys of
\* the left subtree are <= its key and the keys of the right subtree >= it
C5_Order ==
  /\ Then(TreeKeys(T), LAMBDA keys :
       \A i \in 1..(Len(keys) - 1) : keys[i] <= keys[i + 1])
  /\ \A x \in Range(TreeNodes(T)) :
       /\ \A v \in SubKeys(T, Left(T, x)) : v <= Key(T, x)
       /\ \A v \in SubKeys(T, Right(T, x)) : v >= Key(T, x)
C5_Witness ==
  /\ op = "Delete" /\ ret.ok /\ Size(T) >= 4
  /\ Then(TreeKeys(T), LAMBDA keys :
       /\ \E i \in 1..(Len(keys) - 1) : keys[i] = keys[i + 1]
       /\ \E i \in 1..(Len(keys) - 1) : keys[i] < keys[i + 1])

\* C6: for every reachable tree, duplicates included, and every key,
\* present or absent, Rank(key) is the number of stored elements whose key
\* is strictly less than key
C6_RankIsCountLess ==
  Then(TreeKeys(T), LAMBDA keys :
  \A key \in RankKeys : Rank(T, key) = Below(keys, key))

\* C7: for every k with 0 <= k < Size(), Select(k) returns (v, true) with v
\* the element at index k of the sorted sequence of the stored keys
C7_Select ==
  Then(TreeKeys(T), LAMBDA keys :
  \A k \in 0..(Size(T) - 1) :
    Select(T, k) = [val |-> SortedAt(keys, k), ok |-> TRUE])
C7_Witness ==
  /\ op = "Delete" /\ ret.ok /\ Size(T) >= 5
  /\ \E v \in Keys : Count(T, v) >= 2
  /\ Select(T, 0).ok /\ Select(T, Size(T) - 1).ok
  /\ Select(T, 0).val < Select(T, Size(T) - 1).val

\* C8: Select(k) reports found=false exactly when k < 0 or k >= Size(); it
\* then returns the zero key, and the call never changes the tree
C8_SelectNotFound ==
  [][op' = "Select" =>
       /\ (~ret'.ok) <=> (arg' < 0 \/ arg' >= Size(T))
       /\ (~ret'.ok) => ret'.val = zero
       /\ root' = root /\ nodes' = nodes]_vars
C8_Witness == op = "Select" /\ ~ret.ok /\ arg = Size(T) /\ Size(T) >= 3

\* C9: Delete(key) returns true exactly when key is stored; it then removes
\* one occurrence of key, keeps every other element and makes Size() one
\* smaller
C9_Delete ==
  [][op' = "Delete" =>
       Then(TreeKeys(T), LAMBDA before :
       Then(TreeKeys(T'), LAMBDA after :
       /\ ret'.ok <=> Occurs(before, arg') > 0
       /\ ret'.ok =>
            /\ \A v \in Keys :
                 Occurs(after, v) = Occurs(before, v) - (IF v = arg' THEN 1 ELSE 0)
            /\ Size(T') = Size(T) - 1))]_vars
C9_Witness ==
  op = "Delete" /\ ret.ok /\ Count(T, arg) >= 1 /\ Size(T) >= 4

\* C10: Delete of a key that is not stored returns false and leaves the
\* root link and every node's fields as they were, so that repeating it
\* returns false again
C10_DeleteAbsent ==
  [][(op' = "Delete" /\ Count(T, arg') = 0) =>
       (~ret'.ok) /\ root' = root /\ nodes' = nodes]_vars
C10_Witness ==
  op = "Delete" /\ ~ret.ok /\ Count(T, arg) = 0 /\ Size(T) >= 3 /\ Parent(T, nil) # nil

\* inserts minus true-returning deletes of key so far (no call is made with
\* a key outside AllKeys)
Net(key) == IF key \in AllKeys THEN net[key] ELSE 0

RECURSIVE SumOver(_, _)
SumOver(f, S) ==
  IF S = {}
    THEN 0
    ELSE LET x == CHOOSE y \in S : TRUE IN f[x] + SumOver(f, S \ {x})

\* Insert calls so far minus Delete calls that returned true
NetTotal == SumOver(net, AllKeys)

\* C11: Insert(key) on any reachable tree, for any key, stored already or
\* not, adds one occurrence of key, keeps every other element and makes
\* Size() one larger
C11_Insert ==
  [][op' = "Insert" =>
       Then(TreeKeys(T), LAMBDA before :
       Then(TreeKeys(T'), LAMBDA after :
       /\ \A v \in AllKeys :
            Occurs(after, v) = Occurs(before, v) + (IF v = arg' THEN 1 ELSE 0)
       /\ Len(after) = Len(before) + 1
       /\ Size(T') = Size(T) + 1))]_vars
C11_Witness ==
  op = "Insert" /\ Count(T, arg) >= 2 /\ Size(T) >= 4 /\ Count(T, arg) < Size(T)

\* C12: for every key, Search(key) is true exactly when the Inserts of that
\* key so far outnumber its true-returning Deletes
C12_Search == \A key \in RankKeys : Search(T, key) <=> Net(key) > 0
C12_Witness ==
  /\ op = "Delete" /\ ret.ok /\ Search(T, arg) /\ Size(T) >= 4
  /\ \E key \in Keys : ~Search(T, key)
  /\ \E x \in Live(T) : Key(T, x) = arg /\ x # root /\ Parent(T, x) # root

\* C13: in every reachable state Size(), the size field of the root, is the
\* number of Insert calls made so far minus the number of Delete calls that
\* returned true
C13_SizeAccounting == SizeOf(T, root) = NetTotal
C13_Witness ==
  op = "Delete" /\ ~ret.ok /\ Size(T) >= 3 /\ NetTotal >= 3

\* C14: for every reachable tree, duplicates allowed, and every valid index
\* k, Rank(Select(k)) <= k
C14_RankOfSelect ==
  \A k \in 0..(Size(T) - 1) : Rank(T, Select(T, k).val) <= k

\* C15: for every reachable tree, duplicates allowed, and every stored key
\* x, Select(Rank(x)) reports found and returns a key <= x
C15_SelectOfRank ==
  \A x \in Keys :
    Search(T, x) =>
      Then(Select(T, Rank(T, x)), LAMBDA r : r.ok /\ r.val <= x)
C15_Witness ==
  /\ op = "Delete" /\ ret.ok /\ Size(T) >= 4
  /\ \E x \in Keys :
       /\ Count(T, x) >= 2
       /\ Rank(T, x) > CountLess(T, x)
       /\ Select(T, Rank(T, x)) = [val |-> x, ok |-> TRUE]

\* C16: for every reachable tree whose stored keys are pairwise distinct,
\* Rank(Select(k)) = k for every valid index k and Select(Rank(x)) = x for
\* every stored key x
C16_Duality ==
  Then(TreeKeys(T), LAMBDA keys :
  (\A v \in AllKeys : Occurs(keys, v) <= 1) =>
    /\ \A k \in 0..(Size(T) - 1) : Rank(T, Select(T, k).val) = k
    /\ \A i \in 1..Len(keys) :
         Select(T, Rank(T, keys[i])) = [val |-> keys[i], ok |-> TRUE])
C16_Witness ==
  /\ op = "Delete" /\ ret.ok /\ Size(T) >= 5
  /\ \A v \in AllKeys : Count(T, v) <= 1
  /\ Rank(T, Select(T, Size(T) - 1).val) = Size(T) - 1

\* C17: after any sequence of Insert and Delete calls the sentinel is BLACK
\* and its size is 0, also after a Delete whose fixup starts at the sentinel
C17_SentinelBlackSizeZero == ColorOf(T, nil) = BLACK /\ SizeOf(T, nil) = 0
\* a Delete has just put the sentinel in the place of a removed node: the
\* sentinel's parent link names a node of the tree
C17_Witness ==
  /\ op = "Delete" /\ ret.ok /\ Size(T) >= 3
  /\ Parent(T, nil) \in Live(T)
  /\ ColorOf(T, nil) = BLACK

\* C18: right after NewTree and after any sequence of Insert and Delete
\* calls, the sentinel's left, right and parent links all point to the
\* sentinel itself
C18_SentinelSelfReferential ==
  Left(T, nil) = nil /\ Right(T, nil) = nil /\ Parent(T, nil) = nil

\* C18 as amended: the sentinel's left and right links point to the
\* sentinel in every state; its parent link points to the sentinel right
\* after NewTree, and no Insert and no Delete that returns false changes it
\* (a Delete that returns true may leave it naming a node)
C18_SentinelLinks ==
  /\ Left(T, nil) = nil /\ Right(T, nil) = nil
  /\ op = "NewTree" => Parent(T, nil) = nil
  /\ Cardinality(Live(T)) < MaxNodes =>
       \A key \in Keys : Parent(Insert(T, key), nil) = Parent(T, nil)
  /\ \A key \in RankKeys :
       Then(Delete(T, key), LAMBDA d :
       (~d.ok) => Parent(d.h, nil) = Parent(T, nil))
\* an Insert has run on a tree whose sentinel parent link names a node
C18_Witness ==
  /\ op = "Insert" /\ Size(T) >= 4
  /\ Parent(T, nil) \in Live(T)
  /\ \E key \in Keys : ~Delete(T, key).ok

\* C19: Search, Select, Rank and Size are read-only: whatever the tree and
\* the argument, the root link, the sentinel and every field of every node
\* are the same before and after the call
C19_ReadOnly ==
  [][op' \in {"Search", "Select", "Rank", "Size"} =>
       root' = root /\ nodes' = nodes]_vars
C19_Witness ==
  /\ op = "Search" /\ ~ret.ok /\ Size(T) >= 4
  /\ Parent(T, nil) \in Live(T)

\* C20: every Insert and every Delete call terminates: the descents, the
\* walk of updateSizeUpward and the loops of insertFixup and deleteFixup
\* each exit, so a call that is under way returns
C20_Terminates == (frame.pc # "idle") ~> (frame.pc = "idle")
\* the loop of deleteFixup has moved up once and goes round again
C20_Witness ==
  /\ frame.pc = "deleteFixup"
  /\ frame.current # frame.replacementNode
  /\ frame.current # root /\ ColorOf(T, frame.current) = BLACK

\* what the read operation name returns for argument a when it runs alone
\* on tree h
Alone(h, name, a) ==
  CASE name = "Search" -> [val |-> zero, ok |-> Search(h, a)]
    [] name = "Select" -> Select(h, a)
    [] name = "Rank" -> [val |-> Rank(h, a), ok |-> TRUE]
    [] name = "Size" -> [val |-> Size(h), ok |-> TRUE]

ReadNames == {"Search", "Select", "Rank", "Size"}

\* C21: when Search, Select, Rank and Size calls run side by side with no
\* Insert or Delete under way, no step of any of them changes the tree, and
\* each call returns what it returns when it runs alone on that tree
C21_ConcurrentReads ==
  [][(calls' # calls \/ op' \in ReadNames) =>
       /\ root' = root /\ nodes' = nodes
       /\ op' \in ReadNames => ret' = Alone(T, op', arg')]_vars
\* a call has just returned while the call of another goroutine is part way
\* down the tree
C21_Witness ==
  /\ op = "Rank" /\ ret.val >= 2 /\ Size(T) >= 3
  /\ \E t \in Readers :
       /\ calls[t].pc = "selectNode"
       /\ calls[t].current \notin {nil, root}

\* C22: in every reachable state the root link is the sentinel exactly when
\* no element is stored, which is exactly when the size read at the root is
\* 0; on such a tree Delete returns false, Search returns false and Rank
\* returns 0 for every key
C22_EmptyRoot ==
  /\ (root = nil) <=> (NetTotal = 0)
  /\ (root = nil) <=> (SizeOf(T, root) = 0)
  /\ root = nil =>
       \A key \in RankKeys :
         (~Delete(T, key).ok) /\ (~Search(T, key)) /\ Rank(T, key) = 0
\* the last element has just been deleted
C22_Witness == op = "Delete" /\ ret.ok /\ root = nil /\ Live(T) = {}

\* the tree after Insert(x), Insert(y), Insert(z) on tree h
InsertThree(h, x, y, z) == Insert(Insert(Insert(h, x), y), z)

\* h holds b at the root, a as its left child and c as its right child, and
\* nothing else, and is a red-black tree
Balanced3(h, a, b, c) ==
  /\ h.root # nil /\ Key(h, h.root) = b /\ Parent(h, h.root) = nil
  /\ Left(h, h.root) # nil /\ Key(h, Left(h, h.root)) = a
  /\ Right(h, h.root) # nil /\ Key(h, Right(h, h.root)) = c
  /\ TreeKeys(h) = <<a, b, c>>
  /\ ColorOf(h, h.root) = BLACK
  /\ NoRedRed(h)
  /\ Cardinality(BlackCounts(h, h.root)) = 1
  /\ SizeInv(h) /\ SizeOf(h, h.root) = 3

\* C23: inserting three distinct keys a < b < c into an empty tree, in
\* ascending order (a, b, c) or in descending order (c, b, a), ends with b at
\* the root, a as its left and c as its right child, a red-black tree
C23_ThreeKeys ==
  root = nil =>
    \A a, b, c \in DistinctKeys :
      (a < b /\ b < c) =>
        /\ Balanced3(InsertThree(T, a, b, c), a, b, c)
        /\ Balanced3(InsertThree(T, c, b, a), a, b, c)
\* the tree built by 1, 2, 3 in ascending order stands, 3 inserted last
C23_Witness ==
  /\ op = "Insert" /\ arg = 3 /\ NetTotal = 3
  /\ T = Canon(InsertThree(NewTree, 1, 2, 3))
  /\ Balanced3(T, 1, 2, 3)

\* C24: every leftRotate and rightRotate call made inside insertFixup and
\* deleteFixup leaves the in-order key sequence and every node's color as
\* they were, and, the size equation holding in the subtrees below the
\* rotated node and its pivot child before the call, it holds at both of
\* them and at every other node of the tree after the call
C24_Rotations == rotations.kept
\* a Delete whose fixup rotated both ways, and more than twice
C24_Witness ==
  /\ op = "Delete" /\ ret.ok
  /\ rotations.left >= 1 /\ rotations.right >= 1
  /\ rotations.left + rotations.right >= 3

\* deleteNode stands between the walk of updateSizeUpward and the test of
\* originalColor
WalkDone == frame.pc = "updateSizeUpward" /\ frame.current = nil

\* C25: in Delete, after the splice and the walk of updateSizeUpward and
\* before deleteFixup runs, the size equation holds at every node of the
\* tree, whichever of the cases of deleteNode the splice went through and
\* also when the replacement node is the sentinel
C25_SizesBeforeFixup ==
  WalkDone => \A x \in Range(TreeNodes(T)) : SizeAt(T, x)
\* the removed node had two children, its successor was not its right
\* child, the replacement is the sentinel and deleteFixup is about to run
C25_Witness ==
  /\ WalkDone
  /\ Left(T, frame.nodeToDelete) # nil /\ Right(T, frame.nodeToDelete) # nil
  /\ frame.replacementNode = nil
  /\ Parent(T, nil) # Parent(T, Left(T, frame.nodeToDelete))
  /\ frame.originalColor = BLACK

\* the node that follows z in in-order
Successor(h, z) ==
  Then(TreeNodes(h), LAMBDA ns :
  ns[(CHOOSE i \in 1..Len(ns) : ns[i] = z) + 1])

\* the node deleteNode takes out of its place to delete z: z itself when it
\* has at most one real child, otherwise its in-order successor
Removed(h, z) ==
  IF Left(h, z) = nil \/ Right(h, z) = nil THEN z ELSE Successor(h, z)

\* root BLACK, no RED node with a RED child, equal numbers of BLACK nodes on
\* all paths down
RedBlack(h) ==
  /\ h.root # nil => ColorOf(h, h.root) = BLACK
  /\ NoRedRed(h)
  /\ Cardinality(BlackCounts(h, h.root)) = 1

\* C26: deleteNode runs deleteFixup exactly when the node it took out of its
\* place (the target with at most one real child, otherwise its in-order
\* successor) was BLACK before the call; when it was RED, the tree after the
\* splice has a BLACK root, no RED-RED pair and equal black heights as it
\* is, and Delete returns it without recoloring or rotating
C26_FixupIffBlack ==
  [][/\ (frame.pc \in {"deleteNode", "minimum"} /\ frame'.pc = "updateSizeUpward")
          => frame'.originalColor = ColorOf(T, Removed(T, frame.nodeToDelete))
     /\ (frame.pc = "updateSizeUpward" /\ frame'.pc = "updateSizeUpward")
          => frame'.originalColor = frame.originalColor
     /\ WalkDone =>
          /\ (frame'.pc = "deleteFixup") <=> (frame.originalColor = BLACK)
          /\ frame.originalColor = RED =>
               /\ RedBlack(T)
               /\ T' = Canon(Release(T, frame.nodeToDelete))]_vars
\* a BLACK target with two children has been replaced by its RED successor:
\* no fixup is due
C26_Witness ==
  /\ WalkDone /\ frame.originalColor = RED
  /\ Left(T, frame.nodeToDelete) # nil /\ Right(T, frame.nodeToDelete) # nil
  /\ ColorOf(T, frame.nodeToDelete) = BLACK
  /\ Size(T) >= 4

\* Delete stands at its return, and the heap it returns (before the removed
\* node is released)
Returning ==
  \/ WalkDone /\ frame.originalColor = RED
  \/ /\ frame.pc = "deleteFixup"
     /\ ~(frame.current # root /\ ColorOf(T, frame.current) = BLACK)
ReturnHeap ==
  IF frame.pc = "deleteFixup" THEN SetColor(T, frame.current, BLACK) ELSE T

\* in heap h node y stands where node z stood in heap g: below the same
\* parent on the same side, or at the root, with the left subtree of z
\* as its left subtree, and in the color of z
InPlaceOf(h, y, g, z) ==
  /\ Parent(h, y) = Parent(g, z)
  /\ IF Parent(g, z) = nil
       THEN h.root = y
       ELSE /\ z = Left(g, Parent(g, z)) => y = Left(h, Parent(h, y))
            /\ z = Right(g, Parent(g, z)) => y = Right(h, Parent(h, y))
  /\ Left(h, y) = Left(g, z)
  /\ Parent(h, Left(h, y)) = y
  /\ ColorOf(h, y) = ColorOf(g, z)

\* C27: when Delete has removed a node with two real children, the node
\* taken out of its own position (the in-order successor) stands, when the
\* call returns, where the target stood, in the color the target had, and
\* the target is not reachable from the root.  (The target keeps the links
\* and the color it had before the call: deleteNode never writes to it.)
C27_SuccessorInPlace ==
  (/\ Returning
   /\ Left(T, frame.nodeToDelete) # nil /\ Right(T, frame.nodeToDelete) # nil) =>
    /\ InPlaceOf(ReturnHeap, frame.nodeActuallyDeleted, T, frame.nodeToDelete)
    /\ frame.nodeToDelete \notin Range(TreeNodes(ReturnHeap))

\* C27 as amended: for a target with two real children the node taken out
\* of its own position is the in-order successor, the minimum of the
\* target's right subtree; at the end of the splice, before updateSizeUpward
\* and deleteFixup run, it stands where the target stood, in the color the
\* target had, and the target is not reachable from the root, nor is it
\* when the call returns (deleteFixup may by then have rotated or recolored
\* the successor)
C27_SuccessorSpliced ==
  [][/\ (frame.pc = "minimum" /\ frame'.pc = "updateSizeUpward") =>
          /\ frame'.nodeActuallyDeleted = Successor(T, frame.nodeToDelete)
          /\ frame'.nodeActuallyDeleted = minimum(T, Right(T, frame.nodeToDelete))
          /\ InPlaceOf(T', frame'.nodeActuallyDeleted, T, frame.nodeToDelete)
          /\ frame.nodeToDelete \notin Range(TreeNodes(T'))
     /\ Returning => frame.nodeToDelete \notin Range(TreeNodes(ReturnHeap))]_vars
\* the splice has just put a successor from deeper down in the place of a
\* target with two children, and deleteFixup is due
C27_Witness ==
  /\ frame.pc = "updateSizeUpward"
  /\ frame.current = Parent(T, frame.replacementNode)
  /\ Left(T, frame.nodeToDelete) # nil /\ Right(T, frame.nodeToDelete) # nil
  /\ frame.nodeActuallyDeleted # Right(T, frame.nodeToDelete)
  /\ InPlaceOf(T, frame.nodeActuallyDeleted, T, frame.nodeToDelete)
  /\ frame.originalColor = BLACK

\* the nodes on the way from x up to the root, x not included
RECURSIVE PathUp(_, _)
PathUp(h, x) ==
  IF Parent(h, x) = nil THEN {} ELSE {Parent(h, x)} \cup PathUp(h, Parent(h, x))

\* the new node has just been attached: it is a RED leaf and no fixup has
\* touched the tree
Attached(h, f) ==
  /\ f.pc = "insertFixup" /\ f.current = f.newNode
  /\ Left(h, f.newNode) = nil /\ Right(h, f.newNode) = nil
  /\ \A x \in (DOMAIN f.entry) \ {nil} :
       SizeOf(h, x) = f.entry[x].size + (IF x \in PathUp(h, f.newNode) THEN 1 ELSE 0)

\* C28: in the descent of Insert a key equal to the visited node's key goes
\* on to the right child; when the new node is attached, before insertFixup,
\* it lies in the right subtree of every node with an equal key on its path,
\* and the size of every node on the path is exactly 1 more than when Insert
\* was called, that of every other node the same
C28_DuplicatesGoRight ==
  [][/\ (frame.pc = "InsertDescent" /\ frame'.pc = "InsertDescent") =>
          /\ frame'.parent = frame.current
          /\ frame'.current = IF frame.key < Key(T, frame.current)
                                THEN Left(T, frame.current)
                                ELSE Right(T, frame.current)
          /\ Key(T, frame.current) = frame.key =>
               frame'.current = Right(T, frame.current)
          /\ nodes' = [nodes EXCEPT ![frame.current].size = @ + 1]
     /\ (frame.pc = "InsertDescent" /\ frame'.pc = "insertFixup") =>
          /\ Attached(T', frame')
          /\ Parent(T', frame.newNode) = frame.parent
          /\ \A a \in PathUp(T', frame.newNode) :
               Key(T', a) = frame.key =>
                 frame.newNode \in Range(InOrderNodes(T', Right(T', a)))]_vars
\* a new node has just been attached below two nodes with its key and one
\* with another key
C28_Witness ==
  /\ Attached(T, frame)
  /\ Cardinality({a \in PathUp(T, frame.newNode) : Key(T, a) = frame.key}) >= 2
  /\ \E a \in PathUp(T, frame.newNode) : Key(T, a) # frame.key
  /\ \A a \in PathUp(T, frame.newNode) :
       Key(T, a) = frame.key =>
         frame.newNode \in Range(InOrderNodes(T, Right(T, a)))

\* C29: for every reachable tree, duplicates allowed, and every key that is
\* not stored, Rank(key) is the number of stored elements strictly less
\* than key, and lies between 0 and the size read at the root
C29_RankOfAbsent ==
  Then(TreeKeys(T), LAMBDA keys :
  \A key \in RankKeys :
    Occurs(keys, key) = 0 =>
      /\ Rank(T, key) = Below(keys, key)
      /\ 0 <= Rank(T, key) /\ Rank(T, key) <= SizeOf(T, root))
\* a key that is not stored lies between stored keys, the smaller of them
\* stored more than once
C29_Witness ==
  /\ op = "Delete" /\ ret.ok /\ Size(T) >= 4
  /\ \E key \in Keys :
       /\ Count(T, key) = 0
       /\ \E v \in Keys : v < key /\ Count(T, v) >= 2
       /\ \E v \in Keys : v > key /\ Count(T, v) >= 1
       /\ Rank(T, key) = CountLess(T, key)
       /\ Rank(T, key) >= 2 /\ Rank(T, key) < Size(T)

\* the links that lead to real node x: the root link, and the left and the
\* right link of every real node
LinksTo(h, x) ==
  (IF h.root = x THEN {<<nil, "root">>} ELSE {})
    \cup {<<n, "left">> : n \in {m \in Live(h) : Left(h, m) = x}}
    \cup {<<n, "right">> : n \in {m \in Live(h) : Right(h, m) = x}}

\* C30: in every state after a public operation returns the links form a
\* tree: root.parent is the sentinel, every real child of a real node names
\* that node as its parent, every real node is reached from the root by
\* exactly one path (one link leads to it, and the walk from the root meets
\* every real node once), and the walk from the root meets as many real
\* nodes as the size read at the root says
C30_WellFormedTree ==
  /\ Parent(T, root) = nil
  /\ \A n \in Live(T) :
       /\ Left(T, n) # nil => Parent(T, Left(T, n)) = n
       /\ Right(T, n) # nil => Parent(T, Right(T, n)) = n
  /\ \A x \in Live(T) : Cardinality(LinksTo(T, x)) = 1
  /\ Then(TreeNodes(T), LAMBDA ns :
       /\ Range(ns) = Live(T)
       /\ Len(ns) = Cardinality(Live(T))
       /\ Len(ns) = SizeOf(T, root))
\* a Delete that rotated has returned, and the sentinel's parent link still
\* names a node of the tree
C30_Witness ==
  /\ op = "Delete" /\ ret.ok /\ Size(T) >= 5
  /\ rotations.left + rotations.right >= 1
  /\ Parent(T, nil) \in Live(T)
  /\ Parent(T, root) = nil

\* C31: every leftRotate call made by insertFixup or deleteFixup is on a
\* node whose right child is a real node, every rightRotate call on a node
\* whose left child is a real node, and no rotation makes the sentinel the
\* root, a node with children, or the parent of a node other than the root
C31_PivotsReal == rotations.pivots
\* a fixup on a tree of 8 nodes or more has rotated both ways
C31_Witness ==
  /\ frame.pc \in {"insertFixup", "deleteFixup"}
  /\ rotations.left >= 1 /\ rotations.right >= 1
  /\ rotations.pivots
  /\ Size(T) >= 8

\* the other child of the parent of x, as deleteFixup reads it
Sibling(h, x) ==
  IF x = Left(h, Parent(h, x)) THEN Right(h, Parent(h, x))
                               ELSE Left(h, Parent(h, x))

\* the heap after Case 1 of deleteFixup on node x, where the sibling is read
\* a second time
AfterCase1(h, x) ==
  IF x = Left(h, Parent(h, x)) THEN deleteCase1Left(h, x)
                               ELSE deleteCase1Right(h, x)

\* C32: at the head of the deleteFixup loop with the body about to run
\* (current node BLACK and not the root) the sibling of the current node is
\* a real node, at entry and when it is read again after Case 1; at the head
\* of the insertFixup loop with the body about to run the grandparent that
\* is going to be recolored RED is a real node; and no write of a color in
\* Insert or Delete has put RED into the sentinel, which is BLACK
C32_NoRedSentinel ==
  /\ rotations.black
  /\ ColorOf(T, nil) = BLACK
  /\ (frame.pc = "deleteFixup" /\ frame.current # root
        /\ ColorOf(T, frame.current) = BLACK)
       => /\ Sibling(T, frame.current) # nil
          /\ Sibling(AfterCase1(T, frame.current), frame.current) # nil
  /\ (frame.pc = "insertFixup" /\ ColorOf(T, Parent(T, frame.current)) = RED)
       => Parent(T, Parent(T, frame.current)) # nil

\* deleteFixup started from the sentinel, reddened a real sibling in Case 2
\* and moved up, and the body is about to run again on a node with a real
\* sibling
C32_Witness ==
  /\ frame.pc = "deleteFixup"
  /\ frame.replacementNode = nil
  /\ frame.current # nil /\ frame.current # root
  /\ ColorOf(T, frame.current) = BLACK
  /\ \E c \in {Left(T, frame.current), Right(T, frame.current)} :
       c # nil /\ ColorOf(T, c) = RED
  /\ Sibling(T, frame.current) # nil
  /\ rotations.black /\ ColorOf(T, nil) = BLACK

\* heap h with the parent link of the sentinel cleared
Unlinked(h) == SetParent(h, nil, nil)

\* C33: when deleteFixup starts with the sentinel as its current node, the
\* parent link of the sentinel is the node under which this Delete took a
\* node out: a node of the tree with the sentinel as a child, or the
\* sentinel when the tree became empty; and between calls, whatever the
\* parent link of the sentinel is, Insert and Delete of every key leave the
\* heap they would leave with the link cleared
C33_SentinelParent ==
  /\ (frame.pc = "deleteFixup" /\ frame.current = nil
        /\ frame.replacementNode = nil)
       => /\ Parent(T, nil) = frame.below
          /\ root = nil => frame.below = nil
          /\ root # nil =>
                /\ frame.below \in Range(TreeNodes(T))
                /\ nil \in {Left(T, frame.below), Right(T, frame.below)}
  /\ frame.pc = "idle" =>
       \A key \in StepKeys :
         /\ Unlinked(Delete(T, key).h) = Unlinked(Delete(Unlinked(T), key).h)
         /\ Cardinality(Live(T)) < MaxStepNodes =>
              Unlinked(Insert(T, key)) = Unlinked(Insert(Unlinked(T), key))

\* deleteFixup starts from the sentinel in a Delete that was called with
\* the parent link of the sentinel on another node, or on a released one
C33_Witness ==
  /\ frame.pc = "deleteFixup"
  /\ frame.current = nil /\ frame.replacementNode = nil
  /\ root # nil
  /\ frame.stale \notin {nil, frame.below}
  /\ Parent(T, nil) = frame.below
  /\ frame.below \in Range(TreeNodes(T))

\* C34: in every tree and for every k from 0 to Size() - 1 the descent of
\* selectNode from the root ends on a node of the tree, never on the
\* sentinel; and a Select that returned found = true returned the key of
\* that node, which is not the zero key the sentinel holds
C34_SelectReal ==
  /\ \A k \in 0..(Size(T) - 1) : selectNode(T, root, k) \in Range(TreeNodes(T))
  /\ (op = "Select" /\ ret.ok)
       => /\ selectNode(T, root, arg) # nil
          /\ ret.val = Key(T, selectNode(T, root, arg))
          /\ ret.val # zero

\* Select of the last index of a full tree returned a key found two levels
\* or more below the root
C34_Witness ==
  /\ op = "Select" /\ ret.ok
  /\ Size(T) = MaxNodes /\ arg = MaxNodes - 1
  /\ ret.val \in Keys
  /\ Parent(T, Parent(T, selectNode(T, root, arg))) # nil

\* C35: at the head of the insertFixup loop, before every iteration and at
\* loop exit before the root is recolored, all paths from the root down to
\* the sentinel hold the same number of BLACK nodes, a RED node with a RED
\* parent can only be the current node, and the root is RED only when
\* no RED node has a RED child
C35_LoopInvariant ==
  frame.pc = "insertFixup" =>
    /\ Cardinality(BlackCounts(T, root)) = 1
    /\ \A x \in Range(TreeNodes(T)) :
         (ColorOf(T, x) = RED /\ ColorOf(T, Parent(T, x)) = RED)
           => x = frame.current
    /\ ColorOf(T, root) = RED => NoRedRed(T)

\* the loop is at the head of a second iteration: Case 1 moved the current
\* node two levels up, and it is RED with a RED parent again
C35_Witness ==
  /\ frame.pc = "insertFixup"
  /\ frame.current # frame.newNode
  /\ ColorOf(T, frame.current) = RED
  /\ ColorOf(T, Parent(T, frame.current)) = RED
  /\ Cardinality(BlackCounts(T, root)) = 1
  /\ ~NoRedRed(T)

\* the number of rotations the call under way, or the last call, has made
Rotations == rotations.left + rotations.right

\* the heap, with the record of rotations, after Case 1 of the iteration of
\* deleteFixup that is about to run
Case1Done == AfterCase1(Watched(T, rotations), frame.current)

\* C36: Insert has made at most 2 rotations and Delete at most 3 whenever
\* its fixup loop is at its head, loop exit included; an iteration of
\* insertFixup that finds the uncle RED makes no rotation; and Case 2 of
\* deleteFixup, taken when both children of the sibling are BLACK, makes no
\* rotation
C36_FewRotations ==
  /\ frame.pc = "insertFixup" => Rotations <= 2
  /\ frame.pc = "deleteFixup" => Rotations <= 3
  /\ (frame.pc = "insertFixup" /\ ColorOf(T, Parent(T, frame.current)) = RED
        /\ ColorOf(T, Sibling(T, Parent(T, frame.current))) = RED)
       => insertFixupIter(Watched(T, rotations), frame.current).h.rot = rotations
  /\ (frame.pc = "deleteFixup" /\ frame.current # root
        /\ ColorOf(T, frame.current) = BLACK
        /\ \A c \in {Left(Case1Done, Sibling(Case1Done, frame.current)),
                     Right(Case1Done, Sibling(Case1Done, frame.current))} :
             ColorOf(Case1Done, c) = BLACK)
       => deleteCase2(Case1Done, frame.current,
                      Sibling(Case1Done, frame.current)).h.rot = Case1Done.rot

\* the loop of deleteFixup is over after three rotations: Case 1, Case 3 and
\* Case 4
C36_Witness ==
  /\ frame.pc = "deleteFixup"
  /\ ~(frame.current # root /\ ColorOf(T, frame.current) = BLACK)
  /\ Rotations = 3

\* the numbers of real nodes on the paths from x down to the sentinel, one
\* path for every child link that holds the sentinel
RECURSIVE PathLengths(_, _)
PathLengths(h, x) ==
  IF x = nil
    THEN {0}
    ELSE {d + 1 : d \in PathLengths(h, Left(h, x)) \cup PathLengths(h, Right(h, x))}

\* the number of real nodes on the longest and on the shortest path from
\* the root to the sentinel
Height(h) == CHOOSE d \in PathLengths(h, h.root) :
               \A e \in PathLengths(h, h.root) : e <= d
Shortest(h) == CHOOSE d \in PathLengths(h, h.root) :
                 \A e \in PathLengths(h, h.root) : d <= e

\* C37: after every Insert and Delete the height h of the tree satisfies
\* h <= 2 * log2(n + 1) for n = Size(), that is 2^h <= (n + 1)^2, and the
\* longest path from the root to the sentinel has at most twice as many
\* real nodes as the shortest
C37_HeightBound ==
  /\ 2 ^ Height(T) <= (Size(T) + 1) * (Size(T) + 1)
  /\ Height(T) <= 2 * Shortest(T)

\* an Insert returned a tree of MaxNodes nodes whose longest path is twice
\* its shortest
C37_Witness ==
  /\ op = "Insert"
  /\ Size(T) = MaxNodes
  /\ Height(T) = 4 /\ Shortest(T) = 2

\* the root among the nodes n of a heap in which every node but the
\* sentinel is in the tree
RootOf(n) ==
  IF \E x \in (DOMAIN n) \ {nil} : n[x].parent = nil
    THEN CHOOSE x \in (DOMAIN n) \ {nil} : n[x].parent = nil
    ELSE nil

\* the tree as it was when the Insert of a pair was called
Before == [root |-> RootOf(frame.entry), n |-> frame.entry]

\* C38: when Insert(x) has been followed at once by Delete(x), the Delete
\* returned true, and Size() and Select(k) for every k, in range or not,
\* return what they returned before the Insert
C38_InsertThenDelete ==
  frame.pc = "Deleted" =>
    /\ ret.ok
    /\ Size(T) = Size(Before)
    /\ \A k \in Indexes : Select(T, k) = Select(Before, k)

\* the pair was made on a tree of four nodes or more that held the key
\* already, and left a tree of another shape with the same contents
C38_Witness ==
  /\ frame.pc = "Deleted" /\ ret.ok
  /\ Size(T) >= 4
  /\ Occurs(TreeKeys(Before), frame.key) >= 1
  /\ T # Before
  /\ TreeKeys(T) = TreeKeys(Before)
====
